---- MODULE Spec2Model ----
(***************************************************************************)
(* The script interpreter of fallgray (src/source/cmd/fallgray/src):       *)
(* scripting/process_script.rs, scripting/script.rs and the stats-only     *)
(* interpreter of main.rs, with the PlayerStats of ui.rs and the CVar      *)
(* registry initialised by scripting/scripting_plugin.rs.                  *)
(*                                                                         *)
(* The handlers process_script.rs imports by name (cmd_setvar, cmd_getvar,  *)
(* cmd_listvars, cmd_add_gold, cmd_add_stamina, cmd_quit) are the ones     *)
(* script.rs defines; CVarRegistry, cmd_savecvars, cmd_do_damage and Actor *)
(* are described by the specification only.                                *)
(*                                                                         *)
(* Text is modelled as a sequence of one-character strings, so that trim,  *)
(* split_whitespace, starts_with, join, str::parse and Display are         *)
(* computed character by character as the Rust library computes them.      *)
(***************************************************************************)
EXTENDS Integers, Sequences, FiniteSets, TLC

\* Longest script, in lines, handed to an interpreter.
MaxLines == 3

\* ------------------------------------------------------------------------
\* Text: &str / String
\* ------------------------------------------------------------------------

\* char::is_whitespace, for the white space that occurs in script text.
IsWhitespace(c) == c \in {" ", "\t", "\r"}

RECURSIVE TrimStart(_)
TrimStart(s) ==
  IF s = <<>> THEN s
  ELSE IF IsWhitespace(Head(s)) THEN TrimStart(Tail(s)) ELSE s

RECURSIVE TrimEnd(_)
TrimEnd(s) ==
  IF s = <<>> THEN s
  ELSE IF IsWhitespace(s[Len(s)]) THEN TrimEnd(SubSeq(s, 1, Len(s) - 1)) ELSE s

\* str::trim
Trim(s) == TrimEnd(TrimStart(s))

\* str::starts_with
StartsWith(s, p) == Len(s) >= Len(p) /\ SubSeq(s, 1, Len(p)) = p

RECURSIVE SplitAcc(_, _, _)
SplitAcc(s, cur, acc) ==
  IF s = <<>> THEN (IF cur = <<>> THEN acc ELSE Append(acc, cur))
  ELSE IF IsWhitespace(Head(s))
       THEN SplitAcc(Tail(s), <<>>, IF cur = <<>> THEN acc ELSE Append(acc, cur))
       ELSE SplitAcc(Tail(s), Append(cur, Head(s)), acc)

\* str::split_whitespace().collect()
SplitWhitespace(s) == SplitAcc(s, <<>>, <<>>)

RECURSIVE Join(_, _)
\* [&str]::join
Join(toks, sep) ==
  IF toks = <<>> THEN <<>>
  ELSE IF Len(toks) = 1 THEN toks[1]
  ELSE toks[1] \o sep \o Join(Tail(toks), sep)

\* char::to_ascii_lowercase, for the letters of "inf", "infinity" and "nan".
ToLower(c) ==
  CASE c = "I" -> "i" [] c = "N" -> "n" [] c = "F" -> "f" [] c = "T" -> "t"
    [] c = "Y" -> "y" [] c = "A" -> "a" [] OTHER -> c

LowerCase(s) == [k \in 1..Len(s) |-> ToLower(s[k])]

\* ------------------------------------------------------------------------
\* i32
\* ------------------------------------------------------------------------

I32Max == 2147483647
I32Min == (-2147483647) - 1

IsDigit(c) == c \in {"0", "1", "2", "3", "4", "5", "6", "7", "8", "9"}

DigitVal(c) ==
  CASE c = "0" -> 0 [] c = "1" -> 1 [] c = "2" -> 2 [] c = "3" -> 3
    [] c = "4" -> 4 [] c = "5" -> 5 [] c = "6" -> 6 [] c = "7" -> 7
    [] c = "8" -> 8 [] c = "9" -> 9

DigitChar(d) == <<"0", "1", "2", "3", "4", "5", "6", "7", "8", "9">>[d + 1]

AllDigits(s) == \A k \in 1..Len(s) : IsDigit(s[k])

ParseErr == [ok |-> FALSE, v |-> 0]

\* The digits of a non-negative literal, accumulated with checked_mul and
\* checked_add: an Err on leaving the i32 range.
RECURSIVE AccPos(_, _)
AccPos(s, acc) ==
  IF s = <<>> THEN [ok |-> TRUE, v |-> acc]
  ELSE LET d == DigitVal(Head(s)) IN
       IF acc > (I32Max - d) \div 10 THEN ParseErr
       ELSE AccPos(Tail(s), acc * 10 + d)

\* The digits of a negative literal, accumulated with checked_mul and
\* checked_sub, so that -2147483648 parses.
RECURSIVE AccNeg(_, _)
AccNeg(s, acc) ==
  IF s = <<>> THEN [ok |-> TRUE, v |-> acc]
  ELSE LET d == DigitVal(Head(s)) IN
       IF (-acc) > (IF d = 0 THEN I32Max \div 10 ELSE ((I32Max - d) + 1) \div 10)
       THEN ParseErr
       ELSE AccNeg(Tail(s), acc * 10 - d)

\* str::parse::<i32>
ParseI32(s) ==
  IF s = <<>> THEN ParseErr
  ELSE IF Head(s) \in {"+", "-"}
       THEN IF Len(s) = 1 \/ ~AllDigits(Tail(s)) THEN ParseErr
            ELSE IF Head(s) = "-" THEN AccNeg(Tail(s), 0) ELSE AccPos(Tail(s), 0)
       ELSE IF ~AllDigits(s) THEN ParseErr ELSE AccPos(s, 0)

RECURSIVE FmtNat(_)
FmtNat(n) == IF n < 10 THEN <<DigitChar(n)>> ELSE FmtNat(n \div 10) \o <<DigitChar(n % 10)>>

\* Display for i32
FmtI32(n) ==
  IF n >= 0 THEN FmtNat(n)
  ELSE IF n = I32Min THEN <<"-", "2", "1", "4", "7", "4", "8", "3", "6", "4", "8">>
  ELSE <<"-">> \o FmtNat(-n)

\* i32 addition as the two build profiles perform it: "panic" where the
\* checked addition of a debug build overflows, the wrapped sum in release.
I32Add(a, b, profile) ==
  IF b > 0 /\ a > I32Max - b
  THEN IF profile = "debug" THEN [panic |-> TRUE, v |-> a]
       ELSE [panic |-> FALSE, v |-> ((a - I32Max) - 1) + ((b - I32Max) - 1)]
  ELSE IF b < 0 /\ a < I32Min - b
  THEN IF profile = "debug" THEN [panic |-> TRUE, v |-> a]
       ELSE [panic |-> FALSE, v |-> ((a + I32Max) + 1) + ((b + I32Max) + 1)]
  ELSE [panic |-> FALSE, v |-> a + b]

\* ------------------------------------------------------------------------
\* f32
\*
\* A float is NaN, an infinity or a finite value sign * mag / Scale.  The
\* finite values of the model are the decimals of at most FracDigits
\* fraction digits below 2^31 / Scale; f32 arithmetic is exact on the
\* multiples of 1/2 among them, which is where the model adds.
\* ------------------------------------------------------------------------

\* Fraction digits a finite float of the model keeps.
FracDigits == 4

RECURSIVE Pow10(_)
Pow10(k) == IF k = 0 THEN 1 ELSE 10 * Pow10(k - 1)

Scale == Pow10(FracDigits)

NaN == [cls |-> "nan", neg |-> FALSE, mag |-> 0]
Inf(neg) == [cls |-> "inf", neg |-> neg, mag |-> 0]
Fin(neg, mag) == [cls |-> "fin", neg |-> neg, mag |-> mag]
\* The float of an integer n.
F(n) == IF n < 0 THEN Fin(TRUE, (-n) * Scale) ELSE Fin(FALSE, n * Scale)

RECURSIVE NatOf(_, _)
NatOf(s, acc) == IF s = <<>> THEN acc ELSE NatOf(Tail(s), acc * 10 + DigitVal(Head(s)))

\* The index of the first character of s that is not a digit, Len(s) + 1
\* when there is none.
RECURSIVE DigitsEnd(_, _)
DigitsEnd(s, k) == IF k <= Len(s) /\ IsDigit(s[k]) THEN DigitsEnd(s, k + 1) ELSE k

F32Err == [ok |-> FALSE, v |-> NaN]

\* The float of the decimal ip.fp * 10^exp, given as the digits before and
\* after the point.
DecValue(neg, ip, fp, exp) ==
  LET sh == (FracDigits + exp) - Len(fp) IN
  [ok |-> TRUE,
   v |-> Fin(neg, IF sh >= 0 THEN NatOf(ip \o fp, 0) * Pow10(sh)
                  ELSE NatOf(ip \o fp, 0) \div Pow10(-sh))]

\* The exponent of a decimal: [sign] digits from eFrom to the end of s.
ParseExponent(s, neg, ip, fp, eFrom) ==
  LET signed == eFrom <= Len(s) /\ s[eFrom] \in {"+", "-"}
      ep == SubSeq(s, IF signed THEN eFrom + 1 ELSE eFrom, Len(s))
  IN IF ep = <<>> \/ ~AllDigits(ep) THEN F32Err
     ELSE DecValue(neg, ip, fp, IF signed /\ s[eFrom] = "-" THEN -NatOf(ep, 0) ELSE NatOf(ep, 0))

\* A decimal whose mantissa is s[1..fEnd-1], with its point at iEnd if it
\* has one: a digit in the mantissa, then the end of s or an exponent.
ParseMantissa(s, neg, iEnd, fEnd) ==
  IF fEnd - 1 = 0 \/ (fEnd - 1 = 1 /\ iEnd = 1) THEN F32Err
  ELSE IF fEnd = Len(s) + 1
       THEN DecValue(neg, SubSeq(s, 1, iEnd - 1), SubSeq(s, iEnd + 1, fEnd - 1), 0)
  ELSE IF s[fEnd] \in {"e", "E"}
       THEN ParseExponent(s, neg, SubSeq(s, 1, iEnd - 1), SubSeq(s, iEnd + 1, fEnd - 1),
                          fEnd + 1)
  ELSE F32Err

\* digits [. digits] [e [sign] digits]
ParseDecimal(s, neg, iEnd) ==
  IF iEnd <= Len(s) /\ s[iEnd] = "."
  THEN ParseMantissa(s, neg, iEnd, DigitsEnd(s, iEnd + 1))
  ELSE ParseMantissa(s, neg, iEnd, iEnd)

\* inf, infinity and nan, in any case.
ParseInfNan(low, neg) ==
  IF low \in {<<"i", "n", "f">>, <<"i", "n", "f", "i", "n", "i", "t", "y">>} THEN [ok |-> TRUE, v |-> Inf(neg)]
  ELSE IF low = <<"n", "a", "n">> THEN [ok |-> TRUE, v |-> NaN]
  ELSE F32Err

\* What the decimal parser made of s, or inf / nan where it made nothing.
DecimalOr(d, s, neg) == IF d.ok THEN d ELSE ParseInfNan(LowerCase(s), neg)

\* core::num::dec2flt, after the sign.
ParseF32Unsigned(s, neg) == DecimalOr(ParseDecimal(s, neg, DigitsEnd(s, 1)), s, neg)

\* str::parse::<f32>
ParseF32(s) ==
  IF s = <<>> THEN F32Err
  ELSE IF Head(s) \in {"+", "-"}
       THEN IF Len(s) = 1 THEN F32Err
            ELSE ParseF32Unsigned(Tail(s), Head(s) = "-")
       ELSE ParseF32Unsigned(s, FALSE)

RECURSIVE StripZeros(_)
StripZeros(s) ==
  IF s # <<>> /\ s[Len(s)] = "0" THEN StripZeros(SubSeq(s, 1, Len(s) - 1)) ELSE s

\* n as exactly k digits, zero-padded on the left.
RECURSIVE FmtPadded(_, _)
FmtPadded(n, k) == IF k = 0 THEN <<>> ELSE FmtPadded(n \div 10, k - 1) \o <<DigitChar(n % 10)>>

\* Display for f32: the shortest decimal that reads back as the value, no
\* exponent, no ".0" on an integer.
FmtF32(x) ==
  IF x.cls = "nan" THEN <<"N", "a", "N">>
  ELSE IF x.cls = "inf" THEN (IF x.neg THEN <<"-", "i", "n", "f">> ELSE <<"i", "n", "f">>)
  ELSE LET frac == StripZeros(FmtPadded(x.mag % Scale, FracDigits)) IN
       (IF x.neg THEN <<"-">> ELSE <<>>)
       \o FmtNat(x.mag \div Scale)
       \o (IF frac = <<>> THEN <<>> ELSE <<".">> \o frac)

\* The signed numerator of a finite float.
Num(x) == IF x.neg THEN -x.mag ELSE x.mag

\* f32 + f32
FAdd(a, b) ==
  IF a.cls = "nan" \/ b.cls = "nan" THEN NaN
  ELSE IF a.cls = "inf" /\ b.cls = "inf" THEN (IF a.neg = b.neg THEN a ELSE NaN)
  ELSE IF a.cls = "inf" THEN a
  ELSE IF b.cls = "inf" THEN b
  ELSE LET s == Num(a) + Num(b) IN
       IF s = 0 THEN Fin(a.neg /\ b.neg, 0)
       ELSE IF s < 0 THEN Fin(TRUE, -s) ELSE Fin(FALSE, s)

\* a < b on floats; false when either is NaN.
FLt(a, b) ==
  /\ a.cls # "nan" /\ b.cls # "nan"
  /\ IF a.cls = "inf" THEN a.neg /\ ~(b.cls = "inf" /\ b.neg)
     ELSE IF b.cls = "inf" THEN ~b.neg
     ELSE Num(a) < Num(b)

\* a <= b on floats; false when either is NaN.
FLe(a, b) == a.cls # "nan" /\ b.cls # "nan" /\ ~FLt(b, a)

\* f32::min: the other operand when one is NaN.
FMin(a, b) ==
  IF a.cls = "nan" THEN b
  ELSE IF b.cls = "nan" THEN a
  ELSE IF FLt(b, a) THEN b ELSE a

\* ------------------------------------------------------------------------
\* PlayerStats (ui.rs), Actor, CVarRegistry
\* ------------------------------------------------------------------------

\* PlayerStats::default
DefaultStats == [health |-> F(100), stamina |-> F(50), gold |-> 0]

\* CVarValue::Float / CVarValue::Int
CVFloat(x) == [t |-> "Float", f |-> x, i |-> 0]
CVInt(n) == [t |-> "Int", f |-> F(0), i |-> n]

\* Display for CVarValue: the default textual form of the number it holds.
FmtCVar(val) == IF val.t = "Float" THEN FmtF32(val.f) ELSE FmtI32(val.i)

\* The registry is the list of its (name, value) entries in the order of
\* their registration.
CVarIndex(reg, name) ==
  IF \E k \in 1..Len(reg) : reg[k].name = name
  THEN CHOOSE k \in 1..Len(reg) : reg[k].name = name
  ELSE 0

\* CVarRegistry::init: fails if the name is already present.
CVarInit(reg, name, val) ==
  IF CVarIndex(reg, name) # 0
  THEN [ok |-> FALSE, reg |-> reg, err |-> <<"V", "a", "r", "i", "a", "b", "l", "e", " ", "a", "l", "r", "e", "a", "d", "y", " ", "e", "x", "i", "s", "t", "s", ":", " ">> \o name]
  ELSE [ok |-> TRUE, reg |-> Append(reg, [name |-> name, val |-> val]), err |-> <<>>]

\* CVarRegistry::set: fails if the name is absent or holds another type.
CVarSet(reg, name, val) ==
  LET k == CVarIndex(reg, name) IN
  IF k = 0
  THEN [ok |-> FALSE, reg |-> reg, err |-> <<"V", "a", "r", "i", "a", "b", "l", "e", " ", "n", "o", "t", " ", "f", "o", "u", "n", "d", ":", " ">> \o name]
  ELSE IF reg[k].val.t # val.t
  THEN [ok |-> FALSE, reg |-> reg, err |-> <<"T", "y", "p", "e", " ", "m", "i", "s", "m", "a", "t", "c", "h", " ", "f", "o", "r", " ", "v", "a", "r", "i", "a", "b", "l", "e", ":", " ">> \o name]
  ELSE [ok |-> TRUE, reg |-> [reg EXCEPT ![k].val = val], err |-> <<>>]

\* CVarRegistry::get
CVarGet(reg, name) ==
  LET k == CVarIndex(reg, name) IN
  IF k = 0 THEN [some |-> FALSE, val |-> CVInt(0)] ELSE [some |-> TRUE, val |-> reg[k].val]

\* CVarRegistry::list
CVarList(reg) == reg

MouseSensitivity == <<"m", "o", "u", "s", "e", ".", "s", "e", "n", "s", "i", "t", "i", "v", "i", "t", "y">>
ArrowSensitivity == <<"a", "r", "r", "o", "w", "_", "s", "e", "n", "s", "i", "t", "i", "v", "i", "t", "y">>
MouseSmooth == <<"m", "o", "u", "s", "e", "_", "s", "m", "o", "o", "t", "h">>
MouseInvertY == <<"m", "o", "u", "s", "e", ".", "i", "n", "v", "e", "r", "t", "_", "y">>

\* init_camera_cvars on the empty registry of init_resource: 0.0005 and
\* 2.75 as Float, 1 and 1 as Int.
InitCameraCVars ==
  LET r1 == CVarInit(<<>>, MouseSensitivity, CVFloat(ParseF32(<<"0", ".", "0", "0", "0", "5">>).v)).reg
      r2 == CVarInit(r1, ArrowSensitivity, CVFloat(ParseF32(<<"2", ".", "7", "5">>).v)).reg
      r3 == CVarInit(r2, MouseSmooth, CVInt(1)).reg
  IN CVarInit(r3, MouseInvertY, CVInt(1)).reg

\* ------------------------------------------------------------------------
\* Command handlers.  The world w a handler works on is
\*   [stats, cvars, actor, file, pc]
\* and a handler yields the string it returns with the world it leaves.
\* ------------------------------------------------------------------------

Reply(out, w) == [out |-> out, w |-> w]

\* cmd_setvar reporting the literal it was given in place of the value it
\* stored.
cmd_setvar_literal(tokens, w) ==
  IF Len(tokens) < 3 THEN Reply(<<"u", "s", "a", "g", "e", ":", " ", "s", "e", "t", "v", "a", "r", " ", "<", "v", "a", "r", "i", "a", "b", "l", "e", ">", " ", "<", "v", "a", "l", "u", "e", ">">>, w)
  ELSE LET var_name == tokens[2]
           value_str == tokens[3]
           value == ParseF32(value_str)
       IN IF ~value.ok THEN Reply(<<"I", "n", "v", "a", "l", "i", "d", " ", "v", "a", "l", "u", "e", ":", " ">> \o value_str, w)
          ELSE LET r == CVarSet(w.cvars, var_name, CVFloat(value.v)) IN
               IF r.ok
               THEN Reply(var_name \o <<" ", "=", " ">> \o value_str, [w EXCEPT !.cvars = r.reg])
               ELSE Reply(r.err, w)

\* cmd_setvar registering a name the registry does not hold.
cmd_setvar_registering(tokens, w) ==
  IF Len(tokens) < 3 THEN Reply(<<"u", "s", "a", "g", "e", ":", " ", "s", "e", "t", "v", "a", "r", " ", "<", "v", "a", "r", "i", "a", "b", "l", "e", ">", " ", "<", "v", "a", "l", "u", "e", ">">>, w)
  ELSE LET var_name == tokens[2]
           value_str == tokens[3]
           value == ParseF32(value_str)
       IN IF ~value.ok THEN Reply(<<"I", "n", "v", "a", "l", "i", "d", " ", "v", "a", "l", "u", "e", ":", " ">> \o value_str, w)
          ELSE LET r == CVarSet(w.cvars, var_name, CVFloat(value.v)) IN
               IF r.ok
               THEN Reply(var_name \o <<" ", "=", " ">> \o FmtF32(value.v), [w EXCEPT !.cvars = r.reg])
               ELSE IF CVarIndex(w.cvars, var_name) = 0
               THEN Reply(r.err,
                          [w EXCEPT !.cvars = CVarInit(w.cvars, var_name, CVFloat(value.v)).reg])
               ELSE Reply(r.err, w)

\* cmd_setvar storing its Float over a variable of another type.
cmd_setvar_retyping(tokens, w) ==
  IF Len(tokens) < 3 THEN Reply(<<"u", "s", "a", "g", "e", ":", " ", "s", "e", "t", "v", "a", "r", " ", "<", "v", "a", "r", "i", "a", "b", "l", "e", ">", " ", "<", "v", "a", "l", "u", "e", ">">>, w)
  ELSE LET var_name == tokens[2]
           value_str == tokens[3]
           value == ParseF32(value_str)
           k == CVarIndex(w.cvars, var_name)
       IN IF ~value.ok THEN Reply(<<"I", "n", "v", "a", "l", "i", "d", " ", "v", "a", "l", "u", "e", ":", " ">> \o value_str, w)
          ELSE IF k = 0 THEN Reply(CVarSet(w.cvars, var_name, CVFloat(value.v)).err, w)
          ELSE Reply(var_name \o <<" ", "=", " ">> \o FmtF32(value.v),
                     [w EXCEPT !.cvars[k].val = CVFloat(value.v)])

cmd_setvar(tokens, w) ==
  IF Len(tokens) < 3 THEN Reply(<<"u", "s", "a", "g", "e", ":", " ", "s", "e", "t", "v", "a", "r", " ", "<", "v", "a", "r", "i", "a", "b", "l", "e", ">", " ", "<", "v", "a", "l", "u", "e", ">">>, w)
  ELSE LET var_name == tokens[2]
           value_str == tokens[3]
           value == ParseF32(value_str)
       IN IF ~value.ok THEN Reply(<<"I", "n", "v", "a", "l", "i", "d", " ", "v", "a", "l", "u", "e", ":", " ">> \o value_str, w)
          ELSE LET r == CVarSet(w.cvars, var_name, CVFloat(value.v)) IN
               IF r.ok
               THEN Reply(var_name \o <<" ", "=", " ">> \o FmtF32(value.v), [w EXCEPT !.cvars = r.reg])
               ELSE Reply(r.err, w)

cmd_getvar(tokens, w) ==
  IF Len(tokens) < 2 THEN Reply(<<"u", "s", "a", "g", "e", ":", " ", "g", "e", "t", "v", "a", "r", " ", "<", "v", "a", "r", "i", "a", "b", "l", "e", ">">>, w)
  ELSE LET var_name == tokens[2]
           r == CVarGet(w.cvars, var_name)
       IN IF r.some THEN Reply(FmtCVar(r.val), w)
          ELSE Reply(<<"V", "a", "r", "i", "a", "b", "l", "e", " ", "n", "o", "t", " ", "f", "o", "u", "n", "d", ":", " ">> \o var_name, w)

RECURSIVE ListLines(_)
ListLines(vars) ==
  IF vars = <<>> THEN <<>>
  ELSE <<"\n", " ", " ">> \o vars[1].name \o <<" ", "=", " ">> \o FmtCVar(vars[1].val)
       \o ListLines(Tail(vars))

\* cmd_listvars heading an empty list as it heads any other.
cmd_listvars_headed(tokens, w) ==
  LET vars == CVarList(w.cvars) IN
  Reply(FmtNat(Len(vars)) \o <<" ", "v", "a", "r", "i", "a", "b", "l", "e", "s", ":">> \o ListLines(vars), w)

cmd_listvars(tokens, w) ==
  LET vars == CVarList(w.cvars) IN
  IF vars = <<>> THEN Reply(<<"N", "o", " ", "v", "a", "r", "i", "a", "b", "l", "e", "s", " ", "d", "e", "f", "i", "n", "e", "d">>, w)
  ELSE Reply(FmtNat(Len(vars)) \o <<" ", "v", "a", "r", "i", "a", "b", "l", "e", "s", ":">> \o ListLines(vars), w)

\* Persists the registry to data/cvars.yaml; a failed write is reported and
\* leaves the file as it was.
cmd_savecvars(tokens, w, disk) ==
  IF disk = "ok"
  THEN Reply(<<"C", "V", "a", "r", "s", " ", "s", "a", "v", "e", "d", " ", "t", "o", " ", "d", "a", "t", "a", "/", "c", "v", "a", "r", "s", ".", "y", "a", "m", "l">>, [w EXCEPT !.file = w.cvars])
  ELSE Reply(<<"F", "a", "i", "l", "e", "d", " ", "t", "o", " ", "s", "a", "v", "e", " ", "c", "v", "a", "r", "s">>, w)

\* cmd_add_gold reading the leading digits of a literal it cannot parse, as
\* atoi does, before it reports the literal.
cmd_add_gold_atoi(tokens, w, build) ==
  IF Len(tokens) < 2 THEN Reply(<<"u", "s", "a", "g", "e", ":", " ", "a", "d", "d", "_", "g", "o", "l", "d", " ", "<", "a", "m", "o", "u", "n", "t", ">">>, w)
  ELSE LET amount == ParseI32(tokens[2])
           lead == ParseI32(SubSeq(tokens[2], 1, DigitsEnd(tokens[2], 1) - 1))
       IN
       IF ~amount.ok
       THEN Reply(<<"I", "n", "v", "a", "l", "i", "d", " ", "g", "o", "l", "d", " ", "a", "m", "o", "u", "n", "t", ":", " ">> \o tokens[2],
                  IF lead.ok THEN [w EXCEPT !.stats.gold = I32Add(w.stats.gold, lead.v, "release").v]
                  ELSE w)
       ELSE LET sum == I32Add(w.stats.gold, amount.v, build) IN
            IF sum.panic THEN Reply(<<>>, [w EXCEPT !.pc = "panicked"])
            ELSE Reply(<<"A", "d", "d", "e", "d", " ">> \o FmtI32(amount.v) \o <<" ", "g", "o", "l", "d", ",", " ", "n", "e", "w", " ", "v", "a", "l", "u", "e", ":", " ">> \o FmtI32(sum.v),
                       [w EXCEPT !.stats.gold = sum.v])

cmd_add_gold(tokens, w, build) ==
  IF Len(tokens) < 2 THEN Reply(<<"u", "s", "a", "g", "e", ":", " ", "a", "d", "d", "_", "g", "o", "l", "d", " ", "<", "a", "m", "o", "u", "n", "t", ">">>, w)
  ELSE LET amount == ParseI32(tokens[2]) IN
       IF ~amount.ok THEN Reply(<<"I", "n", "v", "a", "l", "i", "d", " ", "g", "o", "l", "d", " ", "a", "m", "o", "u", "n", "t", ":", " ">> \o tokens[2], w)
       ELSE LET sum == I32Add(w.stats.gold, amount.v, build) IN
            IF sum.panic THEN Reply(<<>>, [w EXCEPT !.pc = "panicked"])
            ELSE Reply(<<"A", "d", "d", "e", "d", " ">> \o FmtI32(amount.v) \o <<" ", "g", "o", "l", "d", ",", " ", "n", "e", "w", " ", "v", "a", "l", "u", "e", ":", " ">> \o FmtI32(sum.v),
                       [w EXCEPT !.stats.gold = sum.v])

\* cmd_add_stamina without the cap at 100.
cmd_add_stamina_uncapped(tokens, w) ==
  IF Len(tokens) < 2 THEN Reply(<<"u", "s", "a", "g", "e", ":", " ", "a", "d", "d", "_", "s", "t", "a", "m", "i", "n", "a", " ", "<", "a", "m", "o", "u", "n", "t", ">">>, w)
  ELSE LET amount == ParseF32(tokens[2]) IN
       IF ~amount.ok THEN Reply(<<"I", "n", "v", "a", "l", "i", "d", " ", "s", "t", "a", "m", "i", "n", "a", " ", "a", "m", "o", "u", "n", "t", ":", " ">> \o tokens[2], w)
       ELSE LET new == FAdd(w.stats.stamina, amount.v) IN
            Reply(<<"A", "d", "d", "e", "d", " ">> \o FmtF32(amount.v) \o <<" ", "s", "t", "a", "m", "i", "n", "a", ",", " ", "n", "e", "w", " ", "v", "a", "l", "u", "e", ":", " ">> \o FmtF32(new),
                  [w EXCEPT !.stats.stamina = new])

\* cmd_add_stamina with the messages of cmd_add_gold left in.
cmd_add_stamina_copied(tokens, w) ==
  IF Len(tokens) < 2 THEN Reply(<<"u", "s", "a", "g", "e", ":", " ", "a", "d", "d", "_", "g", "o", "l", "d", " ", "<", "a", "m", "o", "u", "n", "t", ">">>, w)
  ELSE LET amount == ParseF32(tokens[2]) IN
       IF ~amount.ok THEN Reply(<<"I", "n", "v", "a", "l", "i", "d", " ", "g", "o", "l", "d", " ", "a", "m", "o", "u", "n", "t", ":", " ">> \o tokens[2], w)
       ELSE LET new == FMin(FAdd(w.stats.stamina, amount.v), F(100)) IN
            Reply(<<"A", "d", "d", "e", "d", " ">> \o FmtF32(amount.v) \o <<" ", "s", "t", "a", "m", "i", "n", "a", ",", " ", "n", "e", "w", " ", "v", "a", "l", "u", "e", ":", " ">> \o FmtF32(new),
                  [w EXCEPT !.stats.stamina = new])

cmd_add_stamina(tokens, w) ==
  IF Len(tokens) < 2 THEN Reply(<<"u", "s", "a", "g", "e", ":", " ", "a", "d", "d", "_", "s", "t", "a", "m", "i", "n", "a", " ", "<", "a", "m", "o", "u", "n", "t", ">">>, w)
  ELSE LET amount == ParseF32(tokens[2]) IN
       IF ~amount.ok THEN Reply(<<"I", "n", "v", "a", "l", "i", "d", " ", "s", "t", "a", "m", "i", "n", "a", " ", "a", "m", "o", "u", "n", "t", ":", " ">> \o tokens[2], w)
       ELSE LET new == FMin(FAdd(w.stats.stamina, amount.v), F(100)) IN
            Reply(<<"A", "d", "d", "e", "d", " ">> \o FmtF32(amount.v) \o <<" ", "s", "t", "a", "m", "i", "n", "a", ",", " ", "n", "e", "w", " ", "v", "a", "l", "u", "e", ":", " ">> \o FmtF32(new),
                  [w EXCEPT !.stats.stamina = new])

\* std::process::exit(0): the process ends inside the handler.
\* cmd_quit answering in place of ending the process.
cmd_quit_answering(tokens, w) == Reply(<<"E", "x", "i", "t", "i", "n", "g", ".", ".", ".">>, w)

cmd_quit(tokens, w) == Reply(<<>>, [w EXCEPT !.pc = "exited"])

\* The health an Actor loses to one do_damage.
DoDamageAmount == 10

\* Applies damage to the supplied actor.
cmd_do_damage(tokens, w) ==
  LET h == FAdd(w.actor.health, F(-DoDamageAmount)) IN
  Reply(<<"D", "e", "a", "l", "t", " ">> \o FmtNat(DoDamageAmount) \o <<" ", "d", "a", "m", "a", "g", "e", ",", " ", "h", "e", "a", "l", "t", "h", ":", " ">> \o FmtF32(h),
        [w EXCEPT !.actor.health = h])

\* ------------------------------------------------------------------------
\* The interpreters
\* ------------------------------------------------------------------------

\* output.push(command_output), which a handler that ended the process
\* never reaches.
Pushed(r, output) ==
  [w |-> r.w, output |-> IF r.w.pc = "running" THEN Append(output, r.out) ELSE output]

\* The match with an unknown command answered by its name alone.
DispatchWithActor_name(tokens, w, env) ==
  LET c == tokens[1] IN
  CASE c = <<"s", "e", "t", "v", "a", "r">> -> cmd_setvar(tokens, w)
    [] c = <<"g", "e", "t", "v", "a", "r">> -> cmd_getvar(tokens, w)
    [] c = <<"l", "i", "s", "t", "v", "a", "r", "s">> -> cmd_listvars(tokens, w)
    [] c = <<"s", "a", "v", "e", "c", "v", "a", "r", "s">> -> cmd_savecvars(tokens, w, env.disk)
    [] c = <<"a", "d", "d", "_", "g", "o", "l", "d">> -> cmd_add_gold(tokens, w, env.build)
    [] c = <<"a", "d", "d", "_", "s", "t", "a", "m", "i", "n", "a">> -> cmd_add_stamina(tokens, w)
    [] c = <<"q", "u", "i", "t">> -> cmd_quit(tokens, w)
    [] c = <<"d", "o", "_", "d", "a", "m", "a", "g", "e">> ->
         IF w.actor.present THEN cmd_do_damage(tokens, w)
         ELSE Reply(<<"d", "o", "_", "d", "a", "m", "a", "g", "e", " ", "c", "a", "n", " ", "o", "n", "l", "y", " ", "b", "e", " ", "u", "s", "e", "d", " ", "o", "n", " ", "a", "c", "t", "o", "r", "s">>, w)
    [] OTHER -> Reply(<<"U", "n", "k", "n", "o", "w", "n", " ", "c", "o", "m", "m", "a", "n", "d", ":", " ">> \o tokens[1], w)

\* The match with do_damage handed to cmd_do_damage whether or not there is
\* an actor.
DispatchWithActor_unguarded(tokens, w, env) ==
  LET c == tokens[1] IN
  CASE c = <<"s", "e", "t", "v", "a", "r">> -> cmd_setvar(tokens, w)
    [] c = <<"g", "e", "t", "v", "a", "r">> -> cmd_getvar(tokens, w)
    [] c = <<"l", "i", "s", "t", "v", "a", "r", "s">> -> cmd_listvars(tokens, w)
    [] c = <<"s", "a", "v", "e", "c", "v", "a", "r", "s">> -> cmd_savecvars(tokens, w, env.disk)
    [] c = <<"a", "d", "d", "_", "g", "o", "l", "d">> -> cmd_add_gold(tokens, w, env.build)
    [] c = <<"a", "d", "d", "_", "s", "t", "a", "m", "i", "n", "a">> -> cmd_add_stamina(tokens, w)
    [] c = <<"q", "u", "i", "t">> -> cmd_quit(tokens, w)
    [] c = <<"d", "o", "_", "d", "a", "m", "a", "g", "e">> ->
         cmd_do_damage(tokens, w)
    [] OTHER -> Reply(<<"U", "n", "k", "n", "o", "w", "n", " ", "c", "o", "m", "m", "a", "n", "d", ":", " ">> \o Join(tokens, <<" ">>), w)

\* process_script.rs: the match of process_script_with_actor.
DispatchWithActor(tokens, w, env) ==
  LET c == tokens[1] IN
  CASE c = <<"s", "e", "t", "v", "a", "r">> -> cmd_setvar(tokens, w)
    [] c = <<"g", "e", "t", "v", "a", "r">> -> cmd_getvar(tokens, w)
    [] c = <<"l", "i", "s", "t", "v", "a", "r", "s">> -> cmd_listvars(tokens, w)
    [] c = <<"s", "a", "v", "e", "c", "v", "a", "r", "s">> -> cmd_savecvars(tokens, w, env.disk)
    [] c = <<"a", "d", "d", "_", "g", "o", "l", "d">> -> cmd_add_gold(tokens, w, env.build)
    [] c = <<"a", "d", "d", "_", "s", "t", "a", "m", "i", "n", "a">> -> cmd_add_stamina(tokens, w)
    [] c = <<"q", "u", "i", "t">> -> cmd_quit(tokens, w)
    [] c = <<"d", "o", "_", "d", "a", "m", "a", "g", "e">> ->
         IF w.actor.present THEN cmd_do_damage(tokens, w)
         ELSE Reply(<<"d", "o", "_", "d", "a", "m", "a", "g", "e", " ", "c", "a", "n", " ", "o", "n", "l", "y", " ", "b", "e", " ", "u", "s", "e", "d", " ", "o", "n", " ", "a", "c", "t", "o", "r", "s">>, w)
    [] OTHER -> Reply(<<"U", "n", "k", "n", "o", "w", "n", " ", "c", "o", "m", "m", "a", "n", "d", ":", " ">> \o Join(tokens, <<" ">>), w)

\* The match of script.rs without its listvars arm.
DispatchScript_unlisted(tokens, w, env) ==
  LET c == tokens[1] IN
  CASE c = <<"s", "e", "t", "v", "a", "r">> -> cmd_setvar(tokens, w)
    [] c = <<"g", "e", "t", "v", "a", "r">> -> cmd_getvar(tokens, w)
    [] c = <<"a", "d", "d", "_", "g", "o", "l", "d">> -> cmd_add_gold(tokens, w, env.build)
    [] c = <<"a", "d", "d", "_", "s", "t", "a", "m", "i", "n", "a">> -> cmd_add_stamina(tokens, w)
    [] c = <<"q", "u", "i", "t">> -> cmd_quit(tokens, w)
    [] OTHER -> Reply(<<"U", "n", "k", "n", "o", "w", "n", " ", "c", "o", "m", "m", "a", "n", "d", ":", " ">> \o Join(tokens, <<" ">>), w)

\* script.rs: the match of process_script.
DispatchScript(tokens, w, env) ==
  LET c == tokens[1] IN
  CASE c = <<"s", "e", "t", "v", "a", "r">> -> cmd_setvar(tokens, w)
    [] c = <<"g", "e", "t", "v", "a", "r">> -> cmd_getvar(tokens, w)
    [] c = <<"l", "i", "s", "t", "v", "a", "r", "s">> -> cmd_listvars(tokens, w)
    [] c = <<"a", "d", "d", "_", "g", "o", "l", "d">> -> cmd_add_gold(tokens, w, env.build)
    [] c = <<"a", "d", "d", "_", "s", "t", "a", "m", "i", "n", "a">> -> cmd_add_stamina(tokens, w)
    [] c = <<"q", "u", "i", "t">> -> cmd_quit(tokens, w)
    [] OTHER -> Reply(<<"U", "n", "k", "n", "o", "w", "n", " ", "c", "o", "m", "m", "a", "n", "d", ":", " ">> \o Join(tokens, <<" ">>), w)

\* main.rs: the match of process_script, which reports on stdout and stderr
\* and returns nothing.
DispatchMain(words, w, env) ==
  LET c == words[1] IN
  CASE c = <<"a", "d", "d", "_", "g", "o", "l", "d">> ->
         IF Len(words) >= 2
         THEN LET amount == ParseI32(words[2]) IN
              IF amount.ok
              THEN LET sum == I32Add(w.stats.gold, amount.v, env.build) IN
                   IF sum.panic THEN [w EXCEPT !.pc = "panicked"]
                   ELSE [w EXCEPT !.stats.gold = sum.v]
              ELSE w
         ELSE w
    [] c = <<"a", "d", "d", "_", "s", "t", "a", "m", "i", "n", "a">> ->
         IF Len(words) >= 2
         THEN LET amount == ParseF32(words[2]) IN
              IF amount.ok
              THEN [w EXCEPT !.stats.stamina = FMin(FAdd(w.stats.stamina, amount.v), F(100))]
              ELSE w
         ELSE w
    [] OTHER -> w

\* The body of the loop with "//" comments not passed over.
ExecLine_hash(f, line, w, output, env) ==
  LET trimmed == Trim(line)
      tokens == SplitWhitespace(trimmed)
  IN IF trimmed = <<>> THEN [w |-> w, output |-> output]
     ELSE IF StartsWith(trimmed, <<"#">>)
     THEN [w |-> w, output |-> output]
     ELSE IF tokens = <<>> THEN [w |-> w, output |-> output]
     ELSE IF f = "main" THEN [w |-> DispatchMain(tokens, w, env), output |-> output]
     ELSE IF f = "script" THEN Pushed(DispatchScript(tokens, w, env), output)
     ELSE Pushed(DispatchWithActor(tokens, w, env), output)

\* The body of the for loop of the interpreter fn, on one line.
ExecLine(f, line, w, output, env) ==
  LET trimmed == Trim(line)
      tokens == SplitWhitespace(trimmed)
  IN IF trimmed = <<>> THEN [w |-> w, output |-> output]
     ELSE IF StartsWith(trimmed, <<"#">>) \/ StartsWith(trimmed, <<"/", "/">>)
     THEN [w |-> w, output |-> output]
     ELSE IF tokens = <<>> THEN [w |-> w, output |-> output]
     ELSE IF f = "main" THEN [w |-> DispatchMain(tokens, w, env), output |-> output]
     ELSE IF f = "script" THEN Pushed(DispatchScript(tokens, w, env), output)
     ELSE Pushed(DispatchWithActor(tokens, w, env), output)

\* The whole loop over lines from the world w: the world and the output at
\* its end, or where the process ended.
RECURSIVE RunLines(_, _, _, _, _)
RunLines(f, lines, w, output, env) ==
  IF lines = <<>> \/ w.pc # "running" THEN [w |-> w, output |-> output]
  ELSE LET r == ExecLine(f, Head(lines), w, output, env) IN
       RunLines(f, Tail(lines), r.w, r.output, env)

\* ------------------------------------------------------------------------
\* State
\* ------------------------------------------------------------------------

VARIABLES
  script,   \* the lines of the script text, as str::lines yields them
  fn,       \* the interpreter called
  build,    \* the build profile of the process: "debug" or "release"
  disk,     \* whether data/cvars.yaml can be written: "ok" or "failing"
  entry,    \* the world at the call
  stats,    \* PlayerStats
  cvars,    \* CVarRegistry
  actor,    \* the Option<&mut Actor> of the call
  file,     \* the registry last written to data/cvars.yaml
  output,   \* the Vec<String> the interpreter builds
  idx,      \* the number of lines the loop has consumed
  pc,       \* "running", "returned", "exited" or "panicked"
  grid,           \* map_file.map.grid: the rows of the level, as text
  collision_map,  \* the CollisionMap resource: occupied cells, width, height
  phase,          \* "startup" until startup_system has run, then "update"
  system,         \* the update_camera_control_system scheduled: "main" or "camera"
  player_radius,  \* PLAYER_RADIUS
  start,          \* player_start_pos
  player,         \* the translation of the Player's Transform
  query,          \* the last call of can_move_to and what it returned
  view,           \* the rotation of the Player's Transform and the velocities of Player
  gaze,           \* what update_camera_control_system read and did in its last run
  weapon,         \* the WeaponSprite component: is_swinging and its swing_timer
  transform,      \* the Transform of the weapon: translation and rotation angles
  visibility,     \* the Visibility component of the weapon
  toolbar,        \* the Toolbar resource
  frame,          \* what update_weapon_swing read and did in its last run
  effect,            \* the StatusEffect component of an entity, if it has one
  victim,            \* the Actor component of that entity
  tally,             \* what update_status_effects read and did in its last run
  shake,             \* the CameraShake component of the camera, if it has one
  camera_transform,  \* the Transform of the camera: its translation
  time,              \* Res<Time>: elapsed_secs
  jolt,              \* what update_camera_shake read and did in its last run
  items,             \* the entities with an Item component
  item_tracker,      \* the ItemTracker resource
  player_pos,        \* the translation of the Player as the item check reads it
  collected          \* what update_check_item_collision did, per entity

\* The variables of a script run, of the map and the player, and of the
\* weapon and the toolbar.
scripted == <<script, fn, build, disk, entry, stats, cvars, actor, file, output, idx, pc>>
spatial ==
  <<grid, collision_map, phase, system, player_radius, start, player, query, view, gaze>>
armed == <<weapon, transform, visibility, toolbar, frame>>

\* The variables of the status effects, of the camera shake and of the items.
afflicted == <<effect, victim, tally>>
shaken == <<shake, camera_transform, time, jolt>>
strewn == <<items, item_tracker, player_pos, collected>>
staged == <<afflicted, shaken, strewn>>

vars == <<scripted, spatial, armed, staged>>

World == [stats |-> stats, cvars |-> cvars, actor |-> actor, file |-> file, pc |-> pc]
Env == [build |-> build, disk |-> disk]

\* The interpreters: process_script and process_script_with_actor of
\* process_script.rs, process_script of script.rs, process_script of main.rs.
Fns == {"process_script", "with_actor", "script", "main"}

NoActor == [present |-> FALSE, health |-> F(0)]
SomeActor == [present |-> TRUE, health |-> F(30)]

\* The scripts of at most MaxLines lines over a pool of lines.
Scripts(pool) == UNION {[1..n -> pool] : n \in 0..MaxLines}

\* save_cvars_on_startup, chained after init_camera_cvars: data/cvars.yaml
\* holds the registry unless the write failed.
SaveCVarsOnStartup(reg, d) == IF d = "ok" THEN reg ELSE <<>>

Builds == {"debug", "release"}
Disks == {"ok", "failing"}

\* The rotation looking_at gives the camera, towards -x and up by 0.048 in
\* 1, in ten-thousandths of a radian, with the velocities of spawn_camera.
SpawnView ==
  [ok |-> TRUE, yaw |-> 31416, pitch |-> 480,
   yaw_velocity |-> Fin(FALSE, 0), pitch_velocity |-> Fin(FALSE, 0)]
NoGaze ==
  [visible |-> FALSE, dt |-> 0, yaw |-> Fin(FALSE, 0), pitch |-> Fin(FALSE, 0), turns |-> 0]

NoQuery == [made |-> FALSE, x |-> 0, y |-> 0, radius |-> 0, result |-> FALSE]
NoFrame == [ran |-> FALSE, just_pressed |-> FALSE, interactions |-> <<>>, delta |-> 0,
            started |-> FALSE]

\* The map and the player while no level is modelled.
SpatialIdle ==
  /\ grid = <<>>
  /\ collision_map = [grid |-> {}, width |-> 0, height |-> 0]
  /\ phase = "update"
  /\ system = "main"
  /\ player_radius = 1
  /\ start = [x |-> 0, y |-> 0]
  /\ player = [x |-> 0, y |-> 0, z |-> 0]
  /\ query = NoQuery
  /\ view = SpawnView
  /\ gaze = NoGaze

\* Transform::from_xyz(REST_POS_X, REST_POS_Y, REST_POS_Z), in thousandths:
\* the rest position and no rotation about z and y.
RestPose == [translation |-> <<600, -450, -1200>>, rotation |-> <<0, 0>>]

\* The weapon as spawn_weapon leaves it (WeaponSprite::default, no
\* Visibility given) and Toolbar::default.
ArmedIdle ==
  /\ weapon = [is_swinging |-> FALSE, elapsed |-> 0, finished |-> FALSE]
  /\ transform = RestPose
  /\ visibility = "Inherited"
  /\ toolbar = [active_slot |-> 1]
  /\ frame = NoFrame

\* An entity without a StatusEffect; times are f32 values in units of 2^-25 s.
NoEffect ==
  [present |-> FALSE, effect_type |-> "None", duration |-> 0, tick_interval |-> 0,
   time_since_tick |-> 0, damage_per_tick |-> 0]
NoTally ==
  [ran |-> FALSE, dt |-> 0, ticked |-> FALSE, ticks |-> 0, dealt |-> 0, life |-> 0,
   created |-> NoEffect]

AfflictIdle ==
  /\ effect = NoEffect
  /\ victim = [health |-> 100]
  /\ tally = NoTally

\* A camera without a CameraShake; lengths in thousandths, times in ms.
NoShake ==
  [present |-> FALSE, intensity |-> 0, duration |-> 0, frequency |-> 0,
   base_position |-> <<0, 0, 0>>]
NoJolt == [ran |-> FALSE, life |-> 0, processed |-> FALSE, first |-> <<0, 0, 0>>,
           moved |-> FALSE, expired |-> FALSE]

\* player_start_pos of main.rs, in thousandths.
PlayerStart == <<260000, 204000, 4800>>

ShakeIdle ==
  /\ shake = NoShake
  /\ camera_transform = [translation |-> PlayerStart]
  /\ time = [elapsed |-> 0]
  /\ jolt = NoJolt

ItemsIdle ==
  /\ items = <<>>
  /\ item_tracker = [positions |-> {}, world_positions |-> <<>>]
  /\ player_pos = <<0, 0>>
  /\ collected = [scripts |-> <<>>, robbed |-> {}, taken |-> {}]

StagedIdle == AfflictIdle /\ ShakeIdle /\ ItemsIdle

\* A call of an interpreter on a script over pool, in a process whose
\* PlayerStats are one of entries.
InitOn(pool, fns, entries, builds, disks) ==
  /\ SpatialIdle
  /\ ArmedIdle
  /\ StagedIdle
  /\ script \in Scripts(pool)
  /\ fn \in fns
  /\ build \in builds
  /\ disk \in disks
  /\ stats \in entries
  /\ cvars = InitCameraCVars
  /\ actor \in (IF fn = "with_actor" THEN {NoActor, SomeActor} ELSE {NoActor})
  /\ file = SaveCVarsOnStartup(cvars, disk)
  /\ output = <<>>
  /\ idx = 0
  /\ pc = "running"
  /\ entry = [stats |-> stats, cvars |-> cvars, actor |-> actor, file |-> file, pc |-> pc]

\* One round of the for loop over script.lines().
Step ==
  /\ pc = "running"
  /\ idx < Len(script)
  /\ LET r == ExecLine(fn, script[idx + 1], World, output, Env) IN
       /\ stats' = r.w.stats
       /\ cvars' = r.w.cvars
       /\ actor' = r.w.actor
       /\ file' = r.w.file
       /\ pc' = r.w.pc
       /\ output' = r.output
  /\ idx' = idx + 1
  /\ UNCHANGED <<script, fn, build, disk, entry>>
  /\ UNCHANGED <<spatial, armed, staged>>

\* The loop is over: the interpreter returns output.
Return ==
  /\ pc = "running"
  /\ idx = Len(script)
  /\ pc' = "returned"
  /\ UNCHANGED <<script, fn, build, disk, entry, stats, cvars, actor, file, output, idx>>
  /\ UNCHANGED <<spatial, armed, staged>>

Next == Step \/ Return

\* ------------------------------------------------------------------------
\* Script lines and the specifications
\* ------------------------------------------------------------------------

L_empty == <<>>
L_blank == <<" ", "\t">>
L_hash == <<"#", " ", "a", "d", "d", "_", "g", "o", "l", "d", " ", "1">>
L_slashes == <<" ", " ", "/", "/", " ", "q", "u", "i", "t">>
L_slash == <<"/", " ", "#">>
L_unknown == <<"f", "o", "o", " ", "\t", " ", "b", "a", "r", " ">>
L_upper == <<"A", "d", "d", "_", "g", "o", "l", "d", " ", "1">>
L_gold10 == <<" ", "a", "d", "d", "_", "g", "o", "l", "d", " ", "1", "0", " ">>
L_goldNeg == <<"a", "d", "d", "_", "g", "o", "l", "d", " ", "-", "3">>
L_goldPlus == <<"a", "d", "d", "_", "g", "o", "l", "d", " ", "+", "5", " ", "7">>
L_goldMax == <<"a", "d", "d", "_", "g", "o", "l", "d", " ", "2", "1", "4", "7", "4", "8", "3", "6", "4", "7">>
L_goldMin == <<"a", "d", "d", "_", "g", "o", "l", "d", " ", "-", "2", "1", "4", "7", "4", "8", "3", "6", "4", "8">>
L_goldNoArg == <<"a", "d", "d", "_", "g", "o", "l", "d">>
L_goldFrac == <<"a", "d", "d", "_", "g", "o", "l", "d", " ", "1", ".", "5">>
L_goldBig == <<"a", "d", "d", "_", "g", "o", "l", "d", " ", "2", "1", "4", "7", "4", "8", "3", "6", "4", "8">>
L_stam60 == <<"a", "d", "d", "_", "s", "t", "a", "m", "i", "n", "a", " ", "6", "0">>
L_stamNeg == <<"a", "d", "d", "_", "s", "t", "a", "m", "i", "n", "a", " ", "-", "6", "0">>
L_stamHalf == <<"a", "d", "d", "_", "s", "t", "a", "m", "i", "n", "a", " ", ".", "5">>
L_stamNaN == <<"a", "d", "d", "_", "s", "t", "a", "m", "i", "n", "a", " ", "N", "a", "N">>
L_stamInf == <<"a", "d", "d", "_", "s", "t", "a", "m", "i", "n", "a", " ", "i", "n", "f">>
L_stamNegInf == <<"a", "d", "d", "_", "s", "t", "a", "m", "i", "n", "a", " ", "-", "I", "n", "f", "i", "n", "i", "t", "y">>
L_stamNoArg == <<"a", "d", "d", "_", "s", "t", "a", "m", "i", "n", "a">>
L_stamBad == <<"a", "d", "d", "_", "s", "t", "a", "m", "i", "n", "a", " ", "6", "o">>
L_damage == <<"d", "o", "_", "d", "a", "m", "a", "g", "e">>
L_quit == <<"q", "u", "i", "t">>
L_listvars == <<"l", "i", "s", "t", "v", "a", "r", "s">>
L_savecvars == <<"s", "a", "v", "e", "c", "v", "a", "r", "s">>
L_setMouse == <<"s", "e", "t", "v", "a", "r", " ", "m", "o", "u", "s", "e", ".", "s", "e", "n", "s", "i", "t", "i", "v", "i", "t", "y", " ", "0", ".", "0", "0", "1", "0">>
L_setMouseExp == <<"s", "e", "t", "v", "a", "r", " ", "m", "o", "u", "s", "e", ".", "s", "e", "n", "s", "i", "t", "i", "v", "i", "t", "y", " ", "2", "5", "e", "-", "1">>
L_setMouseNegZero == <<"s", "e", "t", "v", "a", "r", " ", "m", "o", "u", "s", "e", ".", "s", "e", "n", "s", "i", "t", "i", "v", "i", "t", "y", " ", "-", "0">>
L_setMouseInf == <<"s", "e", "t", "v", "a", "r", " ", "m", "o", "u", "s", "e", ".", "s", "e", "n", "s", "i", "t", "i", "v", "i", "t", "y", " ", "+", "I", "N", "F">>
L_setArrow == <<"s", "e", "t", "v", "a", "r", " ", "a", "r", "r", "o", "w", "_", "s", "e", "n", "s", "i", "t", "i", "v", "i", "t", "y", " ", "3", ".">>
L_setSmooth == <<"s", "e", "t", "v", "a", "r", " ", "m", "o", "u", "s", "e", "_", "s", "m", "o", "o", "t", "h", " ", "0">>
L_setAbsent == <<"s", "e", "t", "v", "a", "r", " ", "n", "o", "p", "e", " ", "1">>
L_setNoArg == <<"s", "e", "t", "v", "a", "r", " ", "m", "o", "u", "s", "e", ".", "s", "e", "n", "s", "i", "t", "i", "v", "i", "t", "y">>
L_setBad == <<"s", "e", "t", "v", "a", "r", " ", "m", "o", "u", "s", "e", ".", "s", "e", "n", "s", "i", "t", "i", "v", "i", "t", "y", " ", "f", "a", "s", "t">>
L_getMouse == <<"g", "e", "t", "v", "a", "r", " ", "m", "o", "u", "s", "e", ".", "s", "e", "n", "s", "i", "t", "i", "v", "i", "t", "y">>
L_getArrow == <<"g", "e", "t", "v", "a", "r", " ", "a", "r", "r", "o", "w", "_", "s", "e", "n", "s", "i", "t", "i", "v", "i", "t", "y">>
L_getSmooth == <<"g", "e", "t", "v", "a", "r", " ", "m", "o", "u", "s", "e", "_", "s", "m", "o", "o", "t", "h">>
L_getAbsent == <<"g", "e", "t", "v", "a", "r", " ", "n", "o", "p", "e">>
L_getNoArg == <<"g", "e", "t", "v", "a", "r">>

\* Blank lines, comments, unknown commands and lines of the other commands.
PoolGeneral ==
  {L_empty, L_blank, L_hash, L_slashes, L_slash, L_unknown, L_upper, L_gold10,
   L_damage, L_quit, L_listvars, L_savecvars}

\* The lines that fail, among lines that change state.
PoolErrors ==
  {L_goldFrac, L_stamNoArg, L_unknown, L_damage, L_setAbsent, L_setSmooth,
   L_gold10, L_goldMax, L_setMouse, L_quit}

\* add_gold lines.
PoolGold ==
  {L_gold10, L_goldNeg, L_goldPlus, L_goldMax, L_goldMin, L_goldNoArg, L_goldFrac,
   L_goldBig}

\* add_stamina lines.
PoolStamina ==
  {L_stam60, L_stamNeg, L_stamHalf, L_stamNaN, L_stamInf, L_stamNegInf, L_stamNoArg,
   L_stamBad}

\* add_gold and add_stamina lines without an argument or with one that
\* does not parse, among lines that do.
PoolBadArgs ==
  {L_goldNoArg, L_goldFrac, L_goldBig, L_stamNoArg, L_stamBad, L_gold10,
   L_goldNeg, L_stamHalf}

\* setvar and getvar lines.
PoolCVars ==
  {L_setMouse, L_setMouseExp, L_setMouseNegZero, L_setMouseInf, L_setArrow,
   L_setSmooth, L_setBad, L_getMouse, L_getArrow, L_listvars}

\* PlayerStats a process can hold when a script is run: the default, and
\* the stats after "add_gold 10", "add_gold -3" and "add_stamina 60".
EntryStats == {DefaultStats, [DefaultStats EXCEPT !.gold = 7, !.stamina = F(100)]}

Init == InitOn(PoolGeneral, Fns, {DefaultStats}, {"release"}, Disks)
Spec == Init /\ [][Next]_vars

InitErrors ==
  InitOn(PoolErrors, {"process_script", "with_actor"}, {DefaultStats}, Builds, {"ok"})
SpecErrors == InitErrors /\ [][Next]_vars

InitGold == InitOn(PoolGold, {"process_script", "script", "main"}, EntryStats, Builds, {"ok"})
SpecGold == InitGold /\ [][Next]_vars

InitStamina ==
  InitOn(PoolStamina, {"process_script", "script", "main"}, EntryStats, {"release"}, {"ok"})
SpecStamina == InitStamina /\ [][Next]_vars

InitBadArgs ==
  InitOn(PoolBadArgs, {"process_script", "script", "main"}, EntryStats, {"release"}, {"ok"})
SpecBadArgs == InitBadArgs /\ [][Next]_vars

InitCVars == InitOn(PoolCVars, {"process_script", "script"}, {DefaultStats}, {"release"}, Disks)
SpecCVars == InitCVars /\ [][Next]_vars

TypeOK ==
  /\ pc \in {"running", "returned", "exited", "panicked"}
  /\ idx \in 0..Len(script)
  /\ Len(output) <= idx

L_setAbsentBad == <<"s", "e", "t", "v", "a", "r", " ", "n", "o", "p", "e", " ", "f", "a", "s", "t">>
L_setInvert == <<"s", "e", "t", "v", "a", "r", " ", "m", "o", "u", "s", "e", ".", "i", "n", "v", "e", "r", "t", "_", "y", " ", "0">>

\* setvar lines that fail, each in its own way, among lines that succeed.
PoolSetvar ==
  {L_setNoArg, L_setBad, L_setAbsent, L_setAbsentBad, L_setSmooth, L_setInvert,
   L_setMouse, L_listvars, L_savecvars}

InitSetvar ==
  InitOn(PoolSetvar, {"process_script", "script"}, {DefaultStats}, {"release"}, {"ok"})
SpecSetvar == InitSetvar /\ [][Next]_vars

\* The registries an interpreter can be handed: the empty one of
\* init_resource, and the registry as init_camera_cvars builds it.
Registries == {<<>>, SubSeq(InitCameraCVars, 1, 2), InitCameraCVars}

\* getvar and listvars lines, among lines that change the registry or
\* the stats.
PoolListvars ==
  {L_listvars, L_getMouse, L_getSmooth, L_getAbsent, L_getNoArg, L_setMouse, L_gold10}

InitListvars ==
  /\ SpatialIdle
  /\ ArmedIdle
  /\ StagedIdle
  /\ script \in Scripts(PoolListvars)
  /\ fn \in {"process_script", "script"}
  /\ build = "release"
  /\ disk = "ok"
  /\ stats = DefaultStats
  /\ cvars \in Registries
  /\ actor = NoActor
  /\ file = SaveCVarsOnStartup(cvars, disk)
  /\ output = <<>>
  /\ idx = 0
  /\ pc = "running"
  /\ entry = [stats |-> stats, cvars |-> cvars, actor |-> actor, file |-> file, pc |-> pc]
SpecListvars == InitListvars /\ [][Next]_vars

L_quitNow == <<" ", "q", "u", "i", "t", " ", "n", "o", "w">>
L_upperQuit == <<"Q", "u", "i", "t">>

\* quit lines, a comment and an unknown command that name quit, among
\* lines that change state.
PoolQuit ==
  {L_quit, L_quitNow, L_upperQuit, L_slashes, L_gold10, L_setMouse, L_stam60, L_damage}

InitQuit ==
  InitOn(PoolQuit, {"process_script", "with_actor", "script"}, {DefaultStats}, {"release"},
         {"ok"})
SpecQuit == InitQuit /\ [][Next]_vars

\* Lines of the commands every interpreter has, an unknown command, and
\* the two commands only process_script_with_actor has.
PoolAgree ==
  {L_gold10, L_goldMax, L_stam60, L_setMouse, L_listvars, L_unknown, L_savecvars,
   L_damage}

InitAgree == InitOn(PoolAgree, Fns, {DefaultStats}, Builds, {"ok"})
SpecAgree == InitAgree /\ [][Next]_vars

\* ------------------------------------------------------------------------
\* The collision map and the movement of the player.  Positions and radii
\* are whole world units.
\* ------------------------------------------------------------------------

MaxRows == 2

\* The side of a cell of the level, in world units.
CellSize == 8

\* matches!(ch, 'X' | 'x') with the short wall left out.
is_solid_tall(ch) == ch = "X"

\* matches!(ch, 'X' | 'x') widened to every glyph that spawns something.
is_solid_glyph(ch) == ch \in {"X", "x", "c"}

is_solid(ch) == ch \in {"X", "x"}

\* max over a set of naturals, 0 for the empty set (unwrap_or(0)).
MaxOf(S) == IF S = {} THEN 0 ELSE CHOOSE m \in S : \A n \in S : n <= m

\* The loop over the rows and characters with column and row exchanged.
collision_grid_transposed(rows) ==
  UNION {{<<row - 1, col - 1>> : col \in {k \in 1..Len(rows[row]) : is_solid(rows[row][k])}} :
           row \in 1..Len(rows)}

\* The cells the loop over rows and characters inserts in collision_grid:
\* (col, row) counted from 0.
collision_grid(rows) ==
  UNION {{<<col - 1, row - 1>> : col \in {k \in 1..Len(rows[row]) : is_solid(rows[row][k])}} :
           row \in 1..Len(rows)}

\* CollisionMap::new(collision_grid, width, height)
CollisionMapNew(cells, width, height) == [grid |-> cells, width |-> width, height |-> height]

\* The point of [lo, hi] closest to v.
Clamp(v, lo, hi) == IF v < lo THEN lo ELSE IF v > hi THEN hi ELSE v

\* The square of the distance from (x, y) to the closest point of cell.
DistSq(x, y, cell) ==
  LET cx == Clamp(x, cell[1] * CellSize, cell[1] * CellSize + CellSize)
      cy == Clamp(y, cell[2] * CellSize, cell[2] * CellSize + CellSize)
  IN (x - cx) * (x - cx) + (y - cy) * (y - cy)

\* CollisionMap::can_move_to: no occupied cell among those the bounding box
\* of the disc spans is closer to its centre than radius.  Lookups are not
\* bounded by width and height.
can_move_to(map, x, y, radius) ==
  LET cols == ((x - radius) \div CellSize)..((x + radius) \div CellSize)
      rows == ((y - radius) \div CellSize)..((y + radius) \div CellSize)
  IN \A col \in cols : \A row \in rows :
       <<col, row>> \in map.grid
         => ~(radius >= 0 /\ DistSq(x, y, <<col, row>>) < radius * radius)

\* The values PLAYER_RADIUS may have.
PlayerRadii == {1, 3}

\* The heights the player is kept within.
Heights == 4..5

\* The positions the player is kept within.
ArenaX == (-1)..(CellSize * 2 + 1)
ArenaY == (-1)..(CellSize * MaxRows + 1)

\* The levels of at most MaxRows rows over a pool of rows.
Levels(pool) == UNION {[1..n -> pool] : n \in 0..MaxRows}

\* No script is being run.
ScriptIdle ==
  /\ script = <<>>
  /\ fn = "main"
  /\ build = "release"
  /\ disk = "ok"
  /\ stats = DefaultStats
  /\ cvars = InitCameraCVars
  /\ actor = NoActor
  /\ file = cvars
  /\ output = <<>>
  /\ idx = 0
  /\ pc = "returned"
  /\ entry = [stats |-> stats, cvars |-> cvars, actor |-> actor, file |-> file, pc |-> pc]

\* The process before startup_system has run, with a level over pool and
\* the player to be spawned at one of starts.
InitLevel(pool, starts, systems, radii) ==
  /\ ScriptIdle
  /\ ArmedIdle
  /\ StagedIdle
  /\ grid \in Levels(pool)
  /\ collision_map = CollisionMapNew({}, 0, 0)
  /\ phase = "startup"
  /\ system \in systems
  /\ player_radius \in radii
  /\ start \in starts
  /\ player = [x |-> 0, y |-> 0, z |-> 0]
  /\ query = NoQuery
  /\ view = SpawnView
  /\ gaze = NoGaze

\* startup_system building the map transposed.
startup_system_transposed ==
  /\ phase = "startup"
  /\ LET height == Len(grid)
         width == MaxOf({Len(grid[r]) : r \in 1..Len(grid)})
     IN collision_map' = CollisionMapNew(collision_grid_transposed(grid), width, height)
  /\ player' = [x |-> start.x, y |-> start.y, z |-> 5]
  /\ view' = SpawnView
  /\ phase' = "update"
  /\ UNCHANGED <<grid, system, player_radius, start, query, gaze>>
  /\ UNCHANGED <<scripted, armed, staged>>

\* startup_system: builds the collision map from the rows of the level and
\* spawns the player at player_start_pos.
startup_system ==
  /\ phase = "startup"
  /\ LET height == Len(grid)
         width == MaxOf({Len(grid[r]) : r \in 1..Len(grid)})
     IN collision_map' = CollisionMapNew(collision_grid(grid), width, height)
  /\ player' = [x |-> start.x, y |-> start.y, z |-> 5]
  /\ view' = SpawnView
  /\ phase' = "update"
  /\ UNCHANGED <<grid, system, player_radius, start, query, gaze>>
  /\ UNCHANGED <<scripted, armed, staged>>

\* A call of can_move_to on the map, the first since it was built.
Query(x, y, radius) ==
  /\ phase = "update"
  /\ ~query.made
  /\ query' = [made |-> TRUE, x |-> x, y |-> y, radius |-> radius,
               result |-> can_move_to(collision_map, x, y, radius)]
  /\ UNCHANGED <<grid, collision_map, phase, system, player_radius, start, player, view, gaze>>
  /\ UNCHANGED <<scripted, armed, staged>>

\* movement_xy and movement_z as the keys pressed give them.
MovementXY(keys) ==
  IF keys \cap {"ControlLeft", "ControlRight"} # {} THEN <<0, 0>>
  ELSE << (IF "KeyD" \in keys THEN 1 ELSE 0) - (IF "KeyA" \in keys THEN 1 ELSE 0),
          (IF "KeyW" \in keys THEN 1 ELSE 0) - (IF "KeyS" \in keys THEN 1 ELSE 0) >>
MovementZ(keys) ==
  IF keys \cap {"ControlLeft", "ControlRight"} # {} THEN 0
  ELSE (IF "KeyR" \in keys THEN 1 ELSE 0) - (IF "KeyF" \in keys THEN 1 ELSE 0)

\* ------------------------------------------------------------------------
\* The rotation of the player.  Angles and angular velocities are floats
\* whose finite values count ten-thousandths of a radian; a frame time is
\* a number of sixtieths of a second.
\* ------------------------------------------------------------------------

AngleScale == Pow10(4)

\* pitch_limit (70 degrees), rotation_limit, std::f32::consts::PI and
\* Player::rot_speed, in ten-thousandths of a radian.
PitchLimit == 12217
RotationLimit == 3500
Pi == 31416
RotSpeed == 27500
SnapIncrement == Pi \div 4

Zero == Fin(FALSE, 0)

\* A float of the registry in ten-thousandths.
Angular(x) ==
  IF x.cls # "fin" THEN x
  ELSE IF Scale >= AngleScale THEN Fin(x.neg, x.mag \div (Scale \div AngleScale))
  ELSE Fin(x.neg, x.mag * (AngleScale \div Scale))

\* -a, a - b, a * (num / den) for an integer num and a positive den, and
\* f32::clamp (called with lo <= hi), which hands a NaN on.
FNeg(a) == IF a.cls = "nan" THEN a ELSE [a EXCEPT !.neg = ~a.neg]
FSub(a, b) == FAdd(a, FNeg(b))
FTimes(a, num, den) ==
  IF a.cls = "nan" THEN NaN
  ELSE IF a.cls = "inf" THEN (IF num = 0 THEN NaN ELSE Inf(a.neg # (num < 0)))
  ELSE Fin(a.neg # (num < 0), (a.mag * (IF num < 0 THEN -num ELSE num)) \div den)
FClamp(a, lo, hi) ==
  IF a.cls = "nan" THEN a
  ELSE IF FLt(a, lo) THEN lo
  ELSE IF FLt(hi, a) THEN hi
  ELSE a

\* a != 0.0, which holds of NaN.
FNonZero(a) == a.cls # "fin" \/ a.mag # 0

\* cvars.get_f32 and cvars.get_i32 on a registry that holds the name.
get_f32(reg, name) == Angular(CVarGet(reg, name).val.f)
get_i32(reg, name) == CVarGet(reg, name).val.i

\* The for loop over mouse_motion.read(): each event adds to the velocity
\* accumulators.
RECURSIVE Accumulated(_, _, _, _)
Accumulated(v, motion, sensitivity, invert_factor) ==
  IF motion = <<>> THEN v
  ELSE Accumulated(
         [v EXCEPT !.yaw_velocity = FAdd(@, FTimes(sensitivity, -Head(motion)[1], 1)),
                   !.pitch_velocity =
                     FAdd(@, FTimes(sensitivity, (-Head(motion)[2]) * invert_factor, 1))],
         Tail(motion), sensitivity, invert_factor)

\* The velocities after the mouse look input of the frame.
MouseLooked(v, reg, motion, can_mouse_look) ==
  IF can_mouse_look /\ get_i32(reg, MouseSmooth) # 0
  THEN Accumulated(v, motion, get_f32(reg, MouseSensitivity),
                   IF get_i32(reg, MouseInvertY) # 0 THEN 1 ELSE -1)
  ELSE v

\* yaw_delta or pitch_delta as the two arrow keys of its axis give it.
ArrowDelta(keys, up, down, step) ==
  LET a == IF up \in keys THEN FAdd(Zero, step) ELSE Zero
  IN IF down \in keys THEN FSub(a, step) ELSE a

\* scale, in hundredths, and max = scale * sensitivity * dt.
SnapScale(yaw_delta, keys) ==
  IF FLt(Zero, yaw_delta) \/ FLt(yaw_delta, Zero) THEN 25
  ELSE IF MovementXY(keys) # <<0, 0>> THEN 10
  ELSE 0
SnapMax(scale, sensitivity, dt) == FTimes(FTimes(sensitivity, scale, 100), dt, 60)

\* f32::clamp panics unless min <= max, which fails of a NaN.
ClampPanics(max) == ~FLe(FNeg(max), max)

\* f32::round of n / d: to the nearest integer, halves away from zero.
RoundDiv(n, d) == IF n >= 0 THEN (2 * n + d) \div (2 * d) ELSE -((d - 2 * n) \div (2 * d))

\* yaw_snap: the multiple of a quarter of pi nearest to yaw, moved on by
\* one in the direction of yaw_delta when it lies behind yaw.
YawSnap(yaw, yaw_delta) ==
  LET snap == RoundDiv(yaw, SnapIncrement) * SnapIncrement IN
  IF FLt(yaw_delta, Zero) /\ snap > yaw THEN snap - SnapIncrement
  ELSE IF FLt(Zero, yaw_delta) /\ snap < yaw THEN snap + SnapIncrement
  ELSE snap

\* The float of an integer number of ten-thousandths.
Signed(n) == IF n < 0 THEN Fin(TRUE, -n) ELSE Fin(FALSE, n)

\* yaw_delta after the pull towards yaw_snap; the yaw of a rotation that
\* is not a number is not a number.
Snapped(v, yaw_delta, max) ==
  IF ~v.ok THEN NaN
  ELSE FAdd(yaw_delta, FClamp(Signed(YawSnap(v.yaw, yaw_delta) - v.yaw), FNeg(max), max))

\* The clamp of a velocity to the rotation limit, and smooth_factor (0.5)
\* to the power dt * 60 as a divisor.
Limited(velocity) == FClamp(velocity, Signed(-RotationLimit), Signed(RotationLimit))
RECURSIVE Pow2(_)
Pow2(k) == IF k = 0 THEN 1 ELSE 2 * Pow2(k - 1)
Decayed(velocity, dt) == FTimes(velocity, 1, Pow2(IF dt > 30 THEN 30 ELSE dt))

\* An angle brought into the range of atan2.
Wrap(a) == ((a + Pi - 1) % (2 * Pi)) - Pi + 1

\* transform.rotation = yaw_rotation * transform.rotation: a rotation by
\* an angle that is not finite is not a number.
Yawed(v, yaw_delta) ==
  IF ~FNonZero(yaw_delta) \/ ~v.ok THEN v
  ELSE IF yaw_delta.cls = "fin" THEN [v EXCEPT !.yaw = Wrap(@ + Num(yaw_delta))]
  ELSE [v EXCEPT !.ok = FALSE, !.yaw = 0, !.pitch = 0]

\* The pitch rotation: the new pitch is clamped to the limit, and a change
\* of at most 0.0001 is not applied.
Pitched(v, pitch_delta) ==
  IF ~FNonZero(pitch_delta) \/ ~v.ok THEN v
  ELSE LET new_pitch == FClamp(FAdd(Signed(v.pitch), pitch_delta),
                               Signed(-PitchLimit), Signed(PitchLimit))
       IN IF new_pitch.cls = "nan" THEN v
          ELSE IF Num(new_pitch) - v.pitch > 1 \/ v.pitch - Num(new_pitch) > 1
          THEN [v EXCEPT !.pitch = Num(new_pitch)]
          ELSE v

\* The rotation and the velocities after the smoothing and the rotation,
\* from the velocities v has after the mouse input and the deltas of the
\* arrow keys and the snap.
Turned(v, yaw_delta, pitch_delta, smooth_enabled, dt) ==
  IF smooth_enabled
  THEN CHOOSE p \in
         {Pitched(y, FAdd(pitch_delta, FTimes(Limited(v.pitch_velocity), dt, 1))) :
            y \in {Yawed([v EXCEPT !.yaw_velocity = Decayed(Limited(@), dt),
                                   !.pitch_velocity = Decayed(Limited(@), dt)],
                         FAdd(yaw_delta, FTimes(Limited(v.yaw_velocity), dt, 1)))}} : TRUE
  ELSE CHOOSE p \in {Pitched(y, pitch_delta) : y \in {Yawed(v, yaw_delta)}} : TRUE

\* The rotation part of update_camera_control_system on the view v whose
\* velocities have the mouse input of the frame, with the sensitivity of
\* the arrow keys: what it leaves, and whether the clamp of line 140
\* panicked before any rotation.
Rotated(v, keys, sensitivity, smooth_enabled, dt) ==
  LET step == FTimes(sensitivity, dt, 60)
      yaw_delta == ArrowDelta(keys, "ArrowLeft", "ArrowRight", step)
      max == SnapMax(SnapScale(yaw_delta, keys), sensitivity, dt)
  IN IF ClampPanics(max) THEN [view |-> v, panicked |-> TRUE]
     ELSE [view |-> CHOOSE t \in
                      {Turned(v, snapped, ArrowDelta(keys, "ArrowUp", "ArrowDown", step),
                              smooth_enabled, dt) :
                         snapped \in {Snapped(v, yaw_delta, max)}} : TRUE,
           panicked |-> FALSE]

\* The whole of the look: of camera/systems.rs with the registry and the
\* mouse, of main.rs with rot_speed and the arrow keys alone.
Looked(v, sys, reg, keys, look, visible) ==
  IF sys = "camera"
  THEN CHOOSE r \in
         {Rotated(w, keys, sensitivity, get_i32(reg, MouseSmooth) # 0, look.dt) :
            w \in {MouseLooked(v, reg, look.motion, look.free /\ ~visible)},
            sensitivity \in {get_f32(reg, ArrowSensitivity)}} : TRUE
  ELSE Rotated(v, keys, Signed(RotSpeed), FALSE, look.dt)

\* What the smoothed velocities add to yaw_delta and pitch_delta.
Contribution(v, sys, reg, look, visible) ==
  IF sys = "camera" /\ get_i32(reg, MouseSmooth) # 0
  THEN LET w == MouseLooked(v, reg, look.motion, look.free /\ ~visible) IN
       [yaw |-> FTimes(Limited(w.yaw_velocity), look.dt, 1),
        pitch |-> FTimes(Limited(w.pitch_velocity), look.dt, 1)]
  ELSE [yaw |-> Zero, pitch |-> Zero]

\* update_camera_control_system moving to the candidate it was refused.
update_camera_control_system_unchecked(keys, d, visible, look) ==
  /\ phase = "update"
  /\ IF system = "camera" /\ visible
     THEN /\ gaze' = [NoGaze EXCEPT !.visible = TRUE, !.turns = gaze.turns]
          /\ UNCHANGED <<player, query, view, phase>>
     ELSE \E r \in {Looked(view, system, cvars, keys, look, visible)},
             c \in {Contribution(view, system, cvars, look, visible)} :
          /\ view' = r.view
          /\ gaze' = [visible |-> visible, dt |-> look.dt, yaw |-> c.yaw, pitch |-> c.pitch,
                      turns |-> IF r.view = view THEN gaze.turns ELSE gaze.turns + 1]
          /\ IF r.panicked
             THEN /\ phase' = "crashed"
                  /\ UNCHANGED <<player, query>>
             ELSE LET new_x == player.x + d[1]
                      new_y == player.y + d[2]
                      z == player.z + MovementZ(keys)
                  IN /\ z \in Heights
                     /\ new_x \in ArenaX
                     /\ new_y \in ArenaY
                     /\ UNCHANGED phase
                     /\ IF MovementXY(keys) # <<0, 0>>
                        THEN /\ query' = [made |-> TRUE, x |-> new_x, y |-> new_y,
                                          radius |-> player_radius,
                                          result |-> can_move_to(collision_map, new_x, new_y,
                                                                 player_radius)]
                             /\ player' = [x |-> new_x, y |-> new_y, z |-> z]
                        ELSE /\ player' = [player EXCEPT !.z = z]
                             /\ UNCHANGED query
  /\ UNCHANGED <<grid, collision_map, system, player_radius, start>>
  /\ UNCHANGED <<scripted, armed, staged>>

\* update_camera_control_system without the test of console_state.visible.
update_camera_control_system_heedless(keys, d, visible, look) ==
  /\ phase = "update"
  /\ IF FALSE
     THEN /\ gaze' = [NoGaze EXCEPT !.visible = TRUE, !.turns = gaze.turns]
          /\ UNCHANGED <<player, query, view, phase>>
     ELSE \E r \in {Looked(view, system, cvars, keys, look, visible)},
             c \in {Contribution(view, system, cvars, look, visible)} :
          /\ view' = r.view
          /\ gaze' = [visible |-> visible, dt |-> look.dt, yaw |-> c.yaw, pitch |-> c.pitch,
                      turns |-> IF r.view = view THEN gaze.turns ELSE gaze.turns + 1]
          /\ IF r.panicked
             THEN /\ phase' = "crashed"
                  /\ UNCHANGED <<player, query>>
             ELSE LET new_x == player.x + d[1]
                      new_y == player.y + d[2]
                      z == player.z + MovementZ(keys)
                  IN /\ z \in Heights
                     /\ new_x \in ArenaX
                     /\ new_y \in ArenaY
                     /\ UNCHANGED phase
                     /\ IF MovementXY(keys) # <<0, 0>>
                        THEN LET ok == can_move_to(collision_map, new_x, new_y,
                                                   player_radius) IN
                             /\ query' = [made |-> TRUE, x |-> new_x, y |-> new_y,
                                          radius |-> player_radius, result |-> ok]
                             /\ player' = IF ok THEN [x |-> new_x, y |-> new_y, z |-> z]
                                          ELSE [player EXCEPT !.z = z]
                        ELSE /\ player' = [player EXCEPT !.z = z]
                             /\ UNCHANGED query
  /\ UNCHANGED <<grid, collision_map, system, player_radius, start>>
  /\ UNCHANGED <<scripted, armed, staged>>

\* update_camera_control_system, of main.rs or of camera/systems.rs, with
\* the keys pressed, the displacement d = move_vec_xy * speed * dt the
\* facing and the frame time give, console_state.visible, which only the
\* system of camera/systems.rs reads, and the look input of the frame:
\* its time dt, the mouse motion events and whether the cursor is locked
\* and no UI element hovered.  A panic of the clamp ends the process; the
\* player is kept within the arena and the heights.
update_camera_control_system(keys, d, visible, look) ==
  /\ phase = "update"
  /\ IF system = "camera" /\ visible
     THEN /\ gaze' = [NoGaze EXCEPT !.visible = TRUE, !.turns = gaze.turns]
          /\ UNCHANGED <<player, query, view, phase>>
     ELSE \E r \in {Looked(view, system, cvars, keys, look, visible)},
             c \in {Contribution(view, system, cvars, look, visible)} :
          /\ view' = r.view
          /\ gaze' = [visible |-> visible, dt |-> look.dt, yaw |-> c.yaw, pitch |-> c.pitch,
                      turns |-> IF r.view = view THEN gaze.turns ELSE gaze.turns + 1]
          /\ IF r.panicked
             THEN /\ phase' = "crashed"
                  /\ UNCHANGED <<player, query>>
             ELSE LET new_x == player.x + d[1]
                      new_y == player.y + d[2]
                      z == player.z + MovementZ(keys)
                  IN /\ z \in Heights
                     /\ new_x \in ArenaX
                     /\ new_y \in ArenaY
                     /\ UNCHANGED phase
                     /\ IF MovementXY(keys) # <<0, 0>>
                        THEN LET ok == can_move_to(collision_map, new_x, new_y,
                                                   player_radius) IN
                             /\ query' = [made |-> TRUE, x |-> new_x, y |-> new_y,
                                          radius |-> player_radius, result |-> ok]
                             /\ player' = IF ok THEN [x |-> new_x, y |-> new_y, z |-> z]
                                          ELSE [player EXCEPT !.z = z]
                        ELSE /\ player' = [player EXCEPT !.z = z]
                             /\ UNCHANGED query
  /\ UNCHANGED <<grid, collision_map, system, player_radius, start>>
  /\ UNCHANGED <<scripted, armed, staged>>

\* The rows of the levels: a tall wall, a short wall, a monster, a row of
\* one cell and an empty row.
RowPool == {<<"X", ".">>, <<".", "x">>, <<" ", "c">>, <<"x">>, <<>>}

\* The coordinates can_move_to is asked about: on the edges of the cells
\* from one cell before the level to two cells past it, and inside them.
Coords(n) == {CellSize * k + o : k \in (-1)..(n + 1), o \in {0, 1, 4, 7}}

\* The radii of the discs can_move_to is asked about.
Radii == {1, 3, 4, 8}

InitCollision == InitLevel(RowPool, {[x |-> 4, y |-> 4]}, {"main"}, {1})
NextCollision ==
  \/ startup_system
  \/ /\ ~query.made
     /\ \E x \in Coords(2), y \in Coords(MaxRows), radius \in Radii : Query(x, y, radius)
SpecCollision == InitCollision /\ [][NextCollision]_vars

\* A frame of a sixtieth of a second without mouse look.
Steady == [dt |-> 1, motion |-> <<>>, free |-> FALSE]

\* The keys a frame can find pressed.
KeySets ==
  {{}, {"KeyW"}, {"KeyW", "KeyS"}, {"KeyA", "KeyR"}, {"ControlLeft", "KeyW"}, {"KeyF"}}

\* The displacements of a frame.
Displacements == {<<1, 0>>, <<-1, 0>>, <<0, 3>>, <<0, -1>>, <<3, -3>>}

\* The positions the player is spawned at.
Starts == {[x |-> 4, y |-> 4], [x |-> 12, y |-> 4]}

InitMove == InitLevel({<<"X", ".">>, <<".", "x">>}, Starts, {"main", "camera"}, PlayerRadii)
NextMove ==
  \/ startup_system
  \/ \E keys \in KeySets, d \in Displacements :
       update_camera_control_system(keys, d, FALSE, Steady)
SpecMove == InitMove /\ [][NextMove]_vars

\* The levels over every row, walked through from one start.
InitWalk == InitLevel(RowPool, {[x |-> 4, y |-> 4]}, {"main", "camera"}, {1})
NextWalk ==
  \/ startup_system
  \/ \E d \in {<<1, 0>>, <<0, 3>>} :
       \E visible \in (IF system = "camera" THEN BOOLEAN ELSE {FALSE}) :
         update_camera_control_system({"KeyW"}, d, visible, Steady)
SpecWalk == InitWalk /\ [][NextWalk]_vars

\* The rotations a play is followed through.
MaxTurns == 2

\* Console lines that set the sensitivities.
L_setMouseNaN == <<"s", "e", "t", "v", "a", "r", " ", "m", "o", "u", "s", "e", ".", "s", "e", "n", "s", "i", "t", "i", "v", "i", "t", "y", " ", "n", "a", "n">>
L_setArrowNeg == <<"s", "e", "t", "v", "a", "r", " ", "a", "r", "r", "o", "w", "_", "s", "e", "n", "s", "i", "t", "i", "v", "i", "t", "y", " ", "-", "1">>

\* The registry after a line typed into the console.
Entered(line) ==
  RunLines("script", <<line>>,
           [stats |-> DefaultStats, cvars |-> InitCameraCVars, actor |-> NoActor,
            file |-> InitCameraCVars, pc |-> "running"],
           <<>>, [build |-> "release", disk |-> "ok"])

\* The keys, frame times (in sixtieths of a second) and mouse motion
\* events of a frame.
LookKeys ==
  {{}, {"ArrowUp"}, {"ArrowLeft"}, {"ArrowLeft", "ArrowRight"}, {"KeyW", "ArrowDown"}}
LookDts == {0, 6, 60}
Motions == {<<>>, <<<<40, -20>>>>, <<<<-1000, 0>>, <<0, 700>>>>}

\* The look input of a frame: events that arrive while the cursor is
\* locked and no UI element hovered, or none of it.
Looks ==
  {[dt |-> dt, motion |-> motion, free |-> TRUE] : dt \in LookDts, motion \in Motions}
    \cup {[dt |-> dt, motion |-> <<>>, free |-> FALSE] : dt \in LookDts}

\* The game before startup_system, after nothing or one of the lines was
\* typed into the console.
InitLook ==
  /\ ArmedIdle
  /\ StagedIdle
  /\ script \in {<<>>, <<L_setMouseNaN>>, <<L_setMouseInf>>, <<L_setArrowNeg>>, <<L_setArrow>>}
  /\ fn = "script"
  /\ build = "release"
  /\ disk = "ok"
  /\ entry = [stats |-> DefaultStats, cvars |-> InitCameraCVars, actor |-> NoActor,
              file |-> InitCameraCVars, pc |-> "running"]
  /\ LET r == IF script = <<>> THEN [w |-> entry, output |-> <<>>] ELSE Entered(script[1]) IN
       /\ stats = r.w.stats
       /\ cvars = r.w.cvars
       /\ actor = r.w.actor
       /\ file = r.w.file
       /\ output = r.output
  /\ idx = Len(script)
  /\ pc = "returned"
  /\ grid = <<<<"X", ".">>>>
  /\ collision_map = CollisionMapNew({}, 0, 0)
  /\ phase = "startup"
  /\ system \in {"main", "camera"}
  /\ player_radius = 1
  /\ start = [x |-> 12, y |-> 4]
  /\ player = [x |-> 0, y |-> 0, z |-> 0]
  /\ query = NoQuery
  /\ view = SpawnView
  /\ gaze = NoGaze
NextLook ==
  \/ startup_system
  \/ /\ gaze.turns < MaxTurns
     /\ \E keys \in LookKeys, look \in Looks :
          \E visible \in (IF system = "camera" THEN BOOLEAN ELSE {FALSE}) :
            update_camera_control_system(
              keys, IF look.dt = 0 THEN <<0, 0>> ELSE <<1, 0>>, visible, look)
SpecLook == InitLook /\ [][NextLook]_vars

\* ------------------------------------------------------------------------
\* The weapon and the toolbar.  Times are in milliseconds.
\* ------------------------------------------------------------------------

\* The duration of swing_timer.
SwingDuration == 400

\* Timer::reset
TimerReset(w) == [w EXCEPT !.elapsed = 0, !.finished = FALSE]

\* Timer::tick of a TimerMode::Once timer: a finished timer stays as it is,
\* any other advances and stops at its duration.
TimerTick(w, delta) ==
  IF w.finished THEN w
  ELSE IF w.elapsed + delta >= SwingDuration
  THEN [w EXCEPT !.elapsed = SwingDuration, !.finished = TRUE]
  ELSE [w EXCEPT !.elapsed = w.elapsed + delta]

\* Timer::fraction, in thousandths.
Fraction(w) == (w.elapsed * 1000) \div SwingDuration

\* The ends of the wind-up and of the thrust, in thousandths of the swing.
WINDUP_END == 150
SWING_END == 500
FOLLOWTHROUGH_END == 1000

\* The wind-up and thrust-end poses, in thousandths.
WindupPose == [translation |-> <<700, -350, -800>>, rotation |-> <<-500, 800>>]
ThrustPose == [translation |-> <<300, -450, -1500>>, rotation |-> <<1550, -1300>>]

\* The easing functions, on thousandths.
ease_out_quad(t) == 1000 - ((1000 - t) * (1000 - t)) \div 1000
ease_in_out_cubic(t) ==
  IF t < 500 THEN (4 * t * t * t) \div 1000000
  ELSE 1000 - (((2000 - 2 * t) * (2000 - 2 * t) * (2000 - 2 * t)) \div 1000000) \div 2

\* a + (b - a) * t on each component of the translation and of the angles.
Lerp(a, b, t) ==
  [translation |-> [k \in 1..3 |->
                      a.translation[k] + ((b.translation[k] - a.translation[k]) * t) \div 1000],
   rotation |-> [k \in 1..2 |->
                   a.rotation[k] + ((b.rotation[k] - a.rotation[k]) * t) \div 1000]]

\* The phase of a swing at a progress, and the pose update_weapon_swing
\* computes for it.
SwingPhase(progress) ==
  IF progress < WINDUP_END THEN "windup"
  ELSE IF progress < SWING_END THEN "thrust"
  ELSE "followthrough"
Pose(progress) ==
  IF progress < WINDUP_END
  THEN Lerp(RestPose, WindupPose, ease_out_quad((progress * 1000) \div WINDUP_END))
  ELSE IF progress < SWING_END
  THEN Lerp(WindupPose, ThrustPose,
            ease_in_out_cubic(((progress - WINDUP_END) * 1000) \div (SWING_END - WINDUP_END)))
  ELSE Lerp(ThrustPose, RestPose,
            ease_out_quad(((progress - SWING_END) * 1000) \div (FOLLOWTHROUGH_END - SWING_END)))

\* The transform a run leaves: untouched at rest, the rest pose when the
\* timer finished, the pose of the progress otherwise.
Posed(swung, ticked) ==
  IF ~swung.is_swinging THEN transform
  ELSE IF ticked.finished THEN RestPose
  ELSE Pose(Fraction(ticked))

\* ui_interaction_query.iter().any(|interaction| *interaction != Interaction::None)
UiBlocked(interactions) == \E k \in 1..Len(interactions) : interactions[k] # "None"

\* update_weapon_swing without the test of is_swinging.
update_weapon_swing_restarting(just_pressed, interactions, delta) ==
  LET begun == just_pressed /\ toolbar.active_slot = 1 /\ ~UiBlocked(interactions)
      swung == IF begun THEN TimerReset([weapon EXCEPT !.is_swinging = TRUE]) ELSE weapon
      ticked == TimerTick(swung, delta)
  IN /\ phase = "update"
     /\ visibility' = IF toolbar.active_slot = 1 THEN "Visible" ELSE "Hidden"
     /\ weapon' = IF ~swung.is_swinging THEN swung
                  ELSE IF ticked.finished THEN [ticked EXCEPT !.is_swinging = FALSE]
                  ELSE ticked
     /\ transform' = Posed(swung, ticked)
     /\ frame' = [ran |-> TRUE, just_pressed |-> just_pressed, interactions |-> interactions,
                  delta |-> delta, started |-> begun]
     /\ UNCHANGED toolbar
     /\ UNCHANGED <<scripted, spatial, staged>>

\* update_weapon_swing with the swing advancing only while slot 1 is active.
update_weapon_swing_sheathed(just_pressed, interactions, delta) ==
  LET begun == /\ just_pressed
               /\ ~weapon.is_swinging
               /\ toolbar.active_slot = 1
               /\ ~UiBlocked(interactions)
      swung == IF begun THEN TimerReset([weapon EXCEPT !.is_swinging = TRUE]) ELSE weapon
      ticked == IF toolbar.active_slot = 1 THEN TimerTick(swung, delta) ELSE swung
  IN /\ phase = "update"
     /\ visibility' = IF toolbar.active_slot = 1 THEN "Visible" ELSE "Hidden"
     /\ weapon' = IF ~swung.is_swinging THEN swung
                  ELSE IF ticked.finished THEN [ticked EXCEPT !.is_swinging = FALSE]
                  ELSE ticked
     /\ transform' = Posed(swung, ticked)
     /\ frame' = [ran |-> TRUE, just_pressed |-> just_pressed, interactions |-> interactions,
                  delta |-> delta, started |-> begun]
     /\ UNCHANGED toolbar
     /\ UNCHANGED <<scripted, spatial, staged>>

\* update_weapon_swing in a frame where the left button was or was not
\* just pressed, with the Interaction components of the UI and the time
\* of the frame.
update_weapon_swing(just_pressed, interactions, delta) ==
  LET begun == /\ just_pressed
               /\ ~weapon.is_swinging
               /\ toolbar.active_slot = 1
               /\ ~UiBlocked(interactions)
      swung == IF begun THEN TimerReset([weapon EXCEPT !.is_swinging = TRUE]) ELSE weapon
      ticked == TimerTick(swung, delta)
  IN /\ phase = "update"
     /\ visibility' = IF toolbar.active_slot = 1 THEN "Visible" ELSE "Hidden"
     /\ weapon' = IF ~swung.is_swinging THEN swung
                  ELSE IF ticked.finished THEN [ticked EXCEPT !.is_swinging = FALSE]
                  ELSE ticked
     /\ transform' = Posed(swung, ticked)
     /\ frame' = [ran |-> TRUE, just_pressed |-> just_pressed, interactions |-> interactions,
                  delta |-> delta, started |-> begun]
     /\ UNCHANGED toolbar
     /\ UNCHANGED <<scripted, spatial, staged>>

\* The slot the ifs on Digit1 .. Digit9 and then Digit0 leave active: the
\* last of them whose key was just pressed.
LastDigit(digits) ==
  IF 0 \in digits THEN 0 ELSE CHOOSE m \in digits : \A n \in digits : n <= m

\* update_toolbar_input with console_state.visible and the digit keys just
\* pressed.
update_toolbar_input(visible, digits) ==
  /\ phase = "update"
  /\ toolbar' = IF visible \/ digits = {} THEN toolbar
                ELSE [toolbar EXCEPT !.active_slot = LastDigit(digits)]
  /\ UNCHANGED <<weapon, transform, visibility, frame>>
  /\ UNCHANGED <<scripted, spatial, staged>>

\* update_toolbar_click with the slots whose Interaction is Pressed, the
\* one the query yields last of which stays active.
update_toolbar_click(just_pressed, pressed) ==
  /\ phase = "update"
  /\ IF just_pressed /\ pressed # {}
     THEN \E slot \in pressed : toolbar' = [toolbar EXCEPT !.active_slot = slot]
     ELSE UNCHANGED toolbar
  /\ UNCHANGED <<weapon, transform, visibility, frame>>
  /\ UNCHANGED <<scripted, spatial, staged>>

\* The Interaction components a frame can find.
InteractionLists == {<<>>, <<"None", "None">>, <<"None", "Hovered">>, <<"Pressed">>}

\* The times of a frame.
Deltas == {0, 100, 150, 400}

\* The digit keys a frame can find just pressed, and the toolbar slots
\* it can find pressed.
DigitSets == {{}, {1}, {2}, {1, 2}, {0, 2}}
PressedSlots == {{}, {1}, {2}}

\* The game after startup_system and spawn_weapon, on an empty level.
InitWeapon ==
  /\ ScriptIdle
  /\ SpatialIdle
  /\ ArmedIdle
  /\ StagedIdle
NextWeapon ==
  \/ \E just_pressed \in BOOLEAN, interactions \in InteractionLists, delta \in Deltas :
       update_weapon_swing(just_pressed, interactions, delta)
  \/ \E visible \in BOOLEAN, digits \in DigitSets : update_toolbar_input(visible, digits)
  \/ \E just_pressed \in BOOLEAN, pressed \in PressedSlots :
       update_toolbar_click(just_pressed, pressed)
SpecWeapon == InitWeapon /\ [][NextWeapon]_vars

\* The times of a frame of a swing, and a frame in which time passed.
SwingDeltas == {0, 50, 150, 400}
SwingTick ==
  \E just_pressed \in BOOLEAN, interactions \in InteractionLists, delta \in SwingDeltas \ {0} :
    update_weapon_swing(just_pressed, interactions, delta)

\* The weapon under frames of which those with positive time recur:
\* update_weapon_swing is in the Update schedule and runs every frame.
NextSwing ==
  \/ \E just_pressed \in BOOLEAN, interactions \in InteractionLists, delta \in SwingDeltas :
       update_weapon_swing(just_pressed, interactions, delta)
  \/ \E visible \in BOOLEAN, digits \in DigitSets : update_toolbar_input(visible, digits)
  \/ \E just_pressed \in BOOLEAN, pressed \in PressedSlots :
       update_toolbar_click(just_pressed, pressed)
SpecSwing == InitWeapon /\ [][NextSwing]_vars /\ WF_vars(SwingTick)

\* ------------------------------------------------------------------------
\* Properties
\* ------------------------------------------------------------------------

\* A line that is blank after trimming or starts, after trimming, with
\* '#' or "//".
IsBlankOrComment(line) ==
  LET t == Trim(line) IN
  \/ t = <<>>
  \/ t[1] = "#"
  \/ (Len(t) >= 2 /\ t[1] = "/" /\ t[2] = "/")

\* The tokens of a line.
TokensOf(line) == SplitWhitespace(Trim(line))

\* The number of lines among the first n of the script that are neither
\* blank nor comments.
CommandLines(n) == Cardinality({k \in 1..n : ~IsBlankOrComment(script[k])})

\* The interpreters that return their output.
ReturnsOutput == fn \in {"process_script", "with_actor", "script"}

\* The line the next round of the loop reads.
Line == script[idx + 1]
AtLine == pc = "running" /\ idx < Len(script)

C1_Blank == AtLine /\ IsBlankOrComment(Line)
C1_Command == AtLine /\ ~IsBlankOrComment(Line) /\ fn \in {"process_script", "with_actor"}

\* C1: process_script_with_actor returns exactly one output string per
\* line that is neither blank nor a comment, in source order: a blank or
\* comment line leaves the output, PlayerStats and the registry as they
\* are, any other line appends one string to the output, and the output
\* returned has one entry per such line.
C1_OneOutputPerLine ==
  /\ [][C1_Blank => /\ output' = output
                    /\ stats' = stats
                    /\ cvars' = cvars]_vars
  /\ [][(C1_Command /\ pc' = "running")
          => /\ Len(output') = Len(output) + 1
             /\ SubSeq(output', 1, Len(output)) = output]_vars
  /\ []((pc = "returned" /\ fn \in {"process_script", "with_actor"})
          => Len(output) = CommandLines(Len(script)))

\* A three-line script with a comment between two commands has returned
\* two outputs.
C1_Witness ==
  /\ pc = "returned"
  /\ fn = "with_actor"
  /\ script = <<L_unknown, L_slashes, L_gold10>>
  /\ Len(output) = 2

\* The commands process_script_with_actor dispatches.
Commands ==
  {<<"s", "e", "t", "v", "a", "r">>, <<"g", "e", "t", "v", "a", "r">>, <<"l", "i", "s", "t", "v", "a", "r", "s">>, <<"s", "a", "v", "e", "c", "v", "a", "r", "s">>, <<"a", "d", "d", "_", "g", "o", "l", "d">>, <<"a", "d", "d", "_", "s", "t", "a", "m", "i", "n", "a">>,
   <<"q", "u", "i", "t">>, <<"d", "o", "_", "d", "a", "m", "a", "g", "e">>}

\* A command line that fails in the world w: a malformed literal, a missing
\* argument, an unknown command, do_damage without an actor, or a name the
\* registry does not hold as a Float.
FailsIn(line, w) ==
  LET t == TokensOf(line)
      c == t[1]
      k == IF Len(t) >= 2 THEN CVarIndex(w.cvars, t[2]) ELSE 0
  IN \/ c \notin Commands
     \/ c = <<"a", "d", "d", "_", "g", "o", "l", "d">> /\ (Len(t) < 2 \/ ~ParseI32(t[2]).ok)
     \/ c = <<"a", "d", "d", "_", "s", "t", "a", "m", "i", "n", "a">> /\ (Len(t) < 2 \/ ~ParseF32(t[2]).ok)
     \/ c = <<"s", "e", "t", "v", "a", "r">> /\ (Len(t) < 3 \/ ~ParseF32(t[3]).ok \/ k = 0 \/ w.cvars[k].val.t # "Float")
     \/ c = <<"g", "e", "t", "v", "a", "r">> /\ (Len(t) < 2 \/ k = 0)
     \/ c = <<"d", "o", "_", "d", "a", "m", "a", "g", "e">> /\ ~w.actor.present

\* s without its k-th element.
Without(s, k) == SubSeq(s, 1, k - 1) \o SubSeq(s, k + 1, Len(s))

\* The run of the first n lines of the script from the world of the call.
RunTo(n) == RunLines(fn, SubSeq(script, 1, n), entry, <<>>, Env)

\* C2: a line whose command fails only appends its error string.  When the
\* interpreter has ended, for every line i that was reached and failed, the
\* run of the script without line i ends the same way in the same world
\* (so no earlier change was rolled back and every later line had its
\* effect), with the same output but for the entry of line i.
C2_FailureOnlyAppends ==
  pc # "running" =>
    \A i \in 1..Len(script) :
      LET pre == RunTo(i - 1) IN
      (pre.w.pc = "running" /\ ~IsBlankOrComment(script[i]) /\ FailsIn(script[i], pre.w))
        => LET rest == RunLines(fn, Without(script, i), entry, <<>>, Env)
               k == Len(pre.output) + 1
           IN /\ Len(output) >= k
              /\ rest.output = Without(output, k)
              /\ rest.w.stats = stats
              /\ rest.w.cvars = cvars
              /\ rest.w.actor = actor
              /\ rest.w.file = file
              /\ (rest.w.pc = "running") = (pc = "returned")
              /\ (rest.w.pc = "exited") = (pc = "exited")

\* A failing line between two lines that change state: both changes are
\* there at the return.
C2_Witness ==
  /\ pc = "returned"
  /\ script = <<L_gold10, L_goldFrac, L_setMouse>>
  /\ stats.gold = 10
  /\ Len(output) = 3
  /\ output[2] = <<"I", "n", "v", "a", "l", "i", "d", " ", "g", "o", "l", "d", " ", "a", "m", "o", "u", "n", "t", ":", " ", "1", ".", "5">>
  /\ output[3] = <<"m", "o", "u", "s", "e", ".", "s", "e", "n", "s", "i", "t", "i", "v", "i", "t", "y", " ", "=", " ", "0", ".", "0", "0", "1">>

\* A line "add_gold <amount>" whose amount parses as an i32.
IsAddGold(line) ==
  LET t == TokensOf(line) IN
  ~IsBlankOrComment(line) /\ t[1] = <<"a", "d", "d", "_", "g", "o", "l", "d">> /\ Len(t) >= 2 /\ ParseI32(t[2]).ok

GoldAmount(line) == ParseI32(TokensOf(line)[2]).v

Limb == 256 * 256

RECURSIVE SumHigh(_)
SumHigh(n) == IF n = 0 THEN entry.stats.gold \div Limb
              ELSE SumHigh(n - 1) + (GoldAmount(script[n]) \div Limb)

RECURSIVE SumLow(_)
SumLow(n) == IF n = 0 THEN entry.stats.gold % Limb
             ELSE SumLow(n - 1) + (GoldAmount(script[n]) % Limb)

\* g is the gold at the call plus the amounts of the first n lines, the
\* sum taken over the integers (in two limbs, as it can leave the i32 range).
IsGoldSum(g, n) ==
  /\ g \div Limb = SumHigh(n) + (SumLow(n) \div Limb)
  /\ g % Limb = SumLow(n) % Limb

\* C3: after a script of add_gold lines with valid integer literals, gold
\* is the gold at the call plus the sum of the amounts, and the i-th output
\* is "Added {amount_i} gold, new value: {running total after line i}".
C3_GoldIsSum ==
  (pc = "returned" /\ \A i \in 1..Len(script) : IsAddGold(script[i]))
    => /\ IsGoldSum(stats.gold, Len(script))
       /\ ReturnsOutput =>
            \A i \in 1..Len(script) :
              LET g == RunTo(i).w.stats.gold IN
              /\ IsGoldSum(g, i)
              /\ output[i] = <<"A", "d", "d", "e", "d", " ">> \o FmtI32(GoldAmount(script[i]))
                               \o <<" ", "g", "o", "l", "d", ",", " ", "n", "e", "w", " ", "v", "a", "l", "u", "e", ":", " ">> \o FmtI32(g)

\* No running total of the script leaves the i32 range.
RECURSIVE TotalsFit(_)
TotalsFit(n) ==
  n = 0 \/ (TotalsFit(n - 1) /\ ~I32Add(RunTo(n - 1).w.stats.gold,
                                        GoldAmount(script[n]), "debug").panic)

\* C3 where no running total leaves the i32 range.
C3_GoldIsSumInRange ==
  (pc = "returned" /\ (\A i \in 1..Len(script) : IsAddGold(script[i]))
     /\ TotalsFit(Len(script)))
    => /\ IsGoldSum(stats.gold, Len(script))
       /\ ReturnsOutput =>
            \A i \in 1..Len(script) :
              LET g == RunTo(i).w.stats.gold IN
              /\ IsGoldSum(g, i)
              /\ output[i] = <<"A", "d", "d", "e", "d", " ">> \o FmtI32(GoldAmount(script[i]))
                               \o <<" ", "g", "o", "l", "d", ",", " ", "n", "e", "w", " ", "v", "a", "l", "u", "e", ":", " ">> \o FmtI32(g)

\* "add_gold 10" then "add_gold -3" from gold 0: gold 7, new values 10 and 7.
C3_Example ==
  /\ pc = "returned"
  /\ fn = "process_script"
  /\ entry.stats.gold = 0
  /\ script = <<L_gold10, L_goldNeg>>
  /\ stats.gold = 7
  /\ output = << <<"A", "d", "d", "e", "d", " ", "1", "0", " ", "g", "o", "l", "d", ",", " ", "n", "e", "w", " ", "v", "a", "l", "u", "e", ":", " ", "1", "0">>, <<"A", "d", "d", "e", "d", " ", "-", "3", " ", "g", "o", "l", "d", ",", " ", "n", "e", "w", " ", "v", "a", "l", "u", "e", ":", " ", "7">> >>

\* C6: from gold 0, gold is never negative.
C6_GoldNonNegative == entry.stats.gold = 0 => stats.gold >= 0

\* A line "add_stamina <amount>" whose amount parses as an f32.
IsAddStamina(line) ==
  LET t == TokensOf(line) IN
  ~IsBlankOrComment(line) /\ t[1] = <<"a", "d", "d", "_", "s", "t", "a", "m", "i", "n", "a">> /\ Len(t) >= 2 /\ ParseF32(t[2]).ok

StaminaAmount(line) == ParseF32(TokensOf(line)[2]).v

\* The lesser of the sum and 100, and 100 when the sum is not a number.
CappedAt100(sum) == IF sum.cls = "nan" \/ FLt(F(100), sum) THEN F(100) ELSE sum

\* C4: add_stamina with a valid amount sets stamina to
\* min(stamina + amount, 100.0) and reports that value as the new value;
\* from a stamina of at most 100, stamina never exceeds 100.
C4_StaminaCappedAt100 ==
  /\ [][(AtLine /\ IsAddStamina(Line))
          => /\ stats'.stamina = CappedAt100(FAdd(stats.stamina, StaminaAmount(Line)))
             /\ ReturnsOutput =>
                  output' = Append(output,
                                   <<"A", "d", "d", "e", "d", " ">> \o FmtF32(StaminaAmount(Line))
                                     \o <<" ", "s", "t", "a", "m", "i", "n", "a", ",", " ", "n", "e", "w", " ", "v", "a", "l", "u", "e", ":", " ">> \o FmtF32(stats'.stamina))]_vars
  /\ [](FLe(stats.stamina, F(100)))

\* "add_stamina 60" from stamina 50: stamina 100 and "new value: 100".
C4_Example ==
  /\ pc = "returned"
  /\ fn = "process_script"
  /\ entry.stats.stamina = F(50)
  /\ script = <<L_stam60>>
  /\ stats.stamina = F(100)
  /\ output = << <<"A", "d", "d", "e", "d", " ", "6", "0", " ", "s", "t", "a", "m", "i", "n", "a", ",", " ", "n", "e", "w", " ", "v", "a", "l", "u", "e", ":", " ", "1", "0", "0">> >>

\* C5: from the default stamina 50, stamina stays within 0 and 100.
C5_StaminaWithin0And100 ==
  entry.stats = DefaultStats => (FLe(F(0), stats.stamina) /\ FLe(stats.stamina, F(100)))

\* The tokens of a line, one space between each two.
RECURSIVE SpaceSeparated(_)
SpaceSeparated(toks) ==
  IF Len(toks) = 1 THEN toks[1]
  ELSE toks[1] \o <<" ">> \o SpaceSeparated(Tail(toks))

C7_UnknownLine ==
  /\ AtLine
  /\ fn \in {"process_script", "with_actor"}
  /\ ~IsBlankOrComment(Line)
  /\ TokensOf(Line)[1] \notin Commands

\* C7: a line whose first token is not a recognised command appends
\* "Unknown command: " and the line's tokens joined by single spaces, and
\* leaves gold, stamina, health, every CVar and the actor unchanged.
C7_UnknownCommand ==
  [][C7_UnknownLine
       => /\ output' = Append(output, <<"U", "n", "k", "n", "o", "w", "n", " ", "c", "o", "m", "m", "a", "n", "d", ":", " ">> \o SpaceSeparated(TokensOf(Line)))
          /\ stats' = stats
          /\ cvars' = cvars
          /\ actor' = actor
          /\ pc' = "running"]_vars

\* "foo bar", with white space of any kind around and between the tokens,
\* has been answered "Unknown command: foo bar".
C7_Example ==
  /\ fn = "with_actor"
  /\ actor.present
  /\ script = <<L_gold10, L_unknown>>
  /\ idx = 2
  /\ output[2] = <<"U", "n", "k", "n", "o", "w", "n", " ", "c", "o", "m", "m", "a", "n", "d", ":", " ", "f", "o", "o", " ", "b", "a", "r">>
  /\ stats.gold = 10

C8_NoAmount(cmd) ==
  AtLine /\ ReturnsOutput /\ ~IsBlankOrComment(Line) /\ TokensOf(Line) = <<cmd>>

C8_BadGold ==
  /\ AtLine /\ ReturnsOutput /\ ~IsBlankOrComment(Line)
  /\ Len(TokensOf(Line)) >= 2
  /\ TokensOf(Line)[1] = <<"a", "d", "d", "_", "g", "o", "l", "d">>
  /\ ~ParseI32(TokensOf(Line)[2]).ok

C8_BadStamina ==
  /\ AtLine /\ ReturnsOutput /\ ~IsBlankOrComment(Line)
  /\ Len(TokensOf(Line)) >= 2
  /\ TokensOf(Line)[1] = <<"a", "d", "d", "_", "s", "t", "a", "m", "i", "n", "a">>
  /\ ~ParseF32(TokensOf(Line)[2]).ok

\* C8: add_gold and add_stamina without an argument return their usage
\* string, and with a literal that does not parse (as i32 for gold, as f32
\* for stamina) "Invalid gold amount: {literal}" or "Invalid stamina amount:
\* {literal}"; gold and stamina are left unchanged in each case.
C8_BadAmount ==
  /\ [][C8_NoAmount(<<"a", "d", "d", "_", "g", "o", "l", "d">>)
          => output' = Append(output, <<"u", "s", "a", "g", "e", ":", " ", "a", "d", "d", "_", "g", "o", "l", "d", " ", "<", "a", "m", "o", "u", "n", "t", ">">>) /\ stats' = stats]_vars
  /\ [][C8_NoAmount(<<"a", "d", "d", "_", "s", "t", "a", "m", "i", "n", "a">>)
          => output' = Append(output, <<"u", "s", "a", "g", "e", ":", " ", "a", "d", "d", "_", "s", "t", "a", "m", "i", "n", "a", " ", "<", "a", "m", "o", "u", "n", "t", ">">>) /\ stats' = stats]_vars
  /\ [][C8_BadGold
          => /\ output' = Append(output, <<"I", "n", "v", "a", "l", "i", "d", " ", "g", "o", "l", "d", " ", "a", "m", "o", "u", "n", "t", ":", " ">> \o TokensOf(Line)[2])
             /\ stats' = stats]_vars
  /\ [][C8_BadStamina
          => /\ output' = Append(output, <<"I", "n", "v", "a", "l", "i", "d", " ", "s", "t", "a", "m", "i", "n", "a", " ", "a", "m", "o", "u", "n", "t", ":", " ">> \o TokensOf(Line)[2])
             /\ stats' = stats]_vars

\* Three of the failures in a row, from gold 7.
C8_Example ==
  /\ fn = "script"
  /\ entry.stats.gold = 7
  /\ script = <<L_goldNoArg, L_goldBig, L_stamBad>>
  /\ pc = "returned"
  /\ stats = entry.stats
  /\ output[1] = <<"u", "s", "a", "g", "e", ":", " ", "a", "d", "d", "_", "g", "o", "l", "d", " ", "<", "a", "m", "o", "u", "n", "t", ">">>
  /\ output[2] = <<"I", "n", "v", "a", "l", "i", "d", " ", "g", "o", "l", "d", " ", "a", "m", "o", "u", "n", "t", ":", " ", "2", "1", "4", "7", "4", "8", "3", "6", "4", "8">>
  /\ output[3] = <<"I", "n", "v", "a", "l", "i", "d", " ", "s", "t", "a", "m", "i", "n", "a", " ", "a", "m", "o", "u", "n", "t", ":", " ", "6", "o">>

C9_DamageLine ==
  /\ AtLine
  /\ fn \in {"process_script", "with_actor"}
  /\ ~IsBlankOrComment(Line)
  /\ TokensOf(Line)[1] = <<"d", "o", "_", "d", "a", "m", "a", "g", "e">>

\* C9: process_script supplies no actor; without an actor every do_damage
\* line yields exactly "do_damage can only be used on actors" and changes
\* no state, and only a call with an actor changes an actor.
C9_DamageNeedsActor ==
  /\ [](fn = "process_script" => ~actor.present)
  /\ [][(C9_DamageLine /\ ~actor.present)
          => /\ output' = Append(output, <<"d", "o", "_", "d", "a", "m", "a", "g", "e", " ", "c", "a", "n", " ", "o", "n", "l", "y", " ", "b", "e", " ", "u", "s", "e", "d", " ", "o", "n", " ", "a", "c", "t", "o", "r", "s">>)
             /\ stats' = stats
             /\ cvars' = cvars
             /\ actor' = actor
             /\ file' = file
             /\ pc' = "running"]_vars
  /\ [][actor' # actor => (C9_DamageLine /\ actor.present)]_vars

\* process_script has answered a do_damage line.
C9_Example ==
  /\ fn = "process_script"
  /\ script = <<L_damage, L_gold10>>
  /\ pc = "returned"
  /\ output = << <<"d", "o", "_", "d", "a", "m", "a", "g", "e", " ", "c", "a", "n", " ", "o", "n", "l", "y", " ", "b", "e", " ", "u", "s", "e", "d", " ", "o", "n", " ", "a", "c", "t", "o", "r", "s">>, <<"A", "d", "d", "e", "d", " ", "1", "0", " ", "g", "o", "l", "d", ",", " ", "n", "e", "w", " ", "v", "a", "l", "u", "e", ":", " ", "1", "0">> >>

\* The variables init_camera_cvars registers as Float.
FloatVars == {MouseSensitivity, ArrowSensitivity}

\* A line "setvar n v" with a value that parses as an f32.
IsSetvarOf(line, n) ==
  LET t == TokensOf(line) IN
  /\ ~IsBlankOrComment(line)
  /\ Len(t) >= 3
  /\ t[1] = <<"s", "e", "t", "v", "a", "r">>
  /\ t[2] = n
  /\ ParseF32(t[3]).ok

\* A line that names n to setvar, whatever follows.
NamesSetvar(line, n) ==
  LET t == TokensOf(line) IN
  ~IsBlankOrComment(line) /\ Len(t) >= 2 /\ t[1] = <<"s", "e", "t", "v", "a", "r">> /\ t[2] = n

IsGetvarOf(line, n) ==
  LET t == TokensOf(line) IN
  ~IsBlankOrComment(line) /\ Len(t) >= 2 /\ t[1] = <<"g", "e", "t", "v", "a", "r">> /\ t[2] = n

\* C10: for a registered Float variable n and a value v that parses as a
\* float, "setvar n v" and then "getvar n" with no setvar on n between them
\* return the value set: what setvar reported is "n = " and then the text
\* getvar returned.
C10_GetvarReturnsValueSet ==
  (pc = "returned" /\ ReturnsOutput) =>
    \A n \in FloatVars : \A i, j \in 1..Len(script) :
      ( /\ i < j
        /\ IsSetvarOf(script[i], n)
        /\ IsGetvarOf(script[j], n)
        /\ \A k \in (i + 1)..(j - 1) : ~NamesSetvar(script[k], n) )
        => output[CommandLines(i)] = n \o <<" ", "=", " ">> \o output[CommandLines(j)]

\* "setvar mouse.sensitivity 0.0010", a setvar on another variable, then
\* "getvar mouse.sensitivity": 0.001 both times.
C10_Example ==
  /\ pc = "returned"
  /\ fn = "process_script"
  /\ script = <<L_setMouse, L_setArrow, L_getMouse>>
  /\ output = << <<"m", "o", "u", "s", "e", ".", "s", "e", "n", "s", "i", "t", "i", "v", "i", "t", "y", " ", "=", " ", "0", ".", "0", "0", "1">>, <<"a", "r", "r", "o", "w", "_", "s", "e", "n", "s", "i", "t", "i", "v", "i", "t", "y", " ", "=", " ", "3">>, <<"0", ".", "0", "0", "1">> >>

\* The next round of the loop reads a line of the command c.
AtCommand(c) == AtLine /\ ~IsBlankOrComment(Line) /\ TokensOf(Line)[1] = c

\* The failure cases of setvar, in the order cmd_setvar meets them.
C11_Usage == AtCommand(<<"s", "e", "t", "v", "a", "r">>) /\ Len(TokensOf(Line)) < 3
C11_Invalid ==
  /\ AtCommand(<<"s", "e", "t", "v", "a", "r">>)
  /\ Len(TokensOf(Line)) >= 3
  /\ ~ParseF32(TokensOf(Line)[3]).ok
C11_Refused ==
  /\ AtCommand(<<"s", "e", "t", "v", "a", "r">>)
  /\ Len(TokensOf(Line)) >= 3
  /\ ParseF32(TokensOf(Line)[3]).ok
  /\ LET g == CVarGet(cvars, TokensOf(Line)[2]) IN ~g.some \/ g.val.t # "Float"

\* C11: setvar leaves the registry unchanged and returns an error string in
\* each failure case: the usage string with fewer than two arguments,
\* "Invalid value: {literal}" for a value that does not parse as a float,
\* and the registry's own error string for a name that is absent or holds
\* another type.
C11_SetvarFailureLeavesRegistry ==
  /\ [][C11_Usage => /\ cvars' = cvars
                     /\ output' = Append(output, <<"u", "s", "a", "g", "e", ":", " ", "s", "e", "t", "v", "a", "r", " ", "<", "v", "a", "r", "i", "a", "b", "l", "e", ">", " ", "<", "v", "a", "l", "u", "e", ">">>)]_vars
  /\ [][C11_Invalid => /\ cvars' = cvars
                       /\ output' = Append(output, <<"I", "n", "v", "a", "l", "i", "d", " ", "v", "a", "l", "u", "e", ":", " ">> \o TokensOf(Line)[3])]_vars
  /\ [][C11_Refused
          => /\ cvars' = cvars
             /\ output' = Append(output,
                  CVarSet(cvars, TokensOf(Line)[2], CVFloat(ParseF32(TokensOf(Line)[3]).v)).err)
             /\ output'[Len(output')] \in
                  { <<"V", "a", "r", "i", "a", "b", "l", "e", " ", "n", "o", "t", " ", "f", "o", "u", "n", "d", ":", " ">> \o TokensOf(Line)[2],
                    <<"T", "y", "p", "e", " ", "m", "i", "s", "m", "a", "t", "c", "h", " ", "f", "o", "r", " ", "v", "a", "r", "i", "a", "b", "l", "e", ":", " ">> \o TokensOf(Line)[2] }]_vars

\* A setvar without a value, one with a value that is no float and one on
\* an Int variable: three error strings, and the registry of startup.
C11_Example ==
  /\ pc = "running"
  /\ idx = 3
  /\ fn = "script"
  /\ script = <<L_setNoArg, L_setBad, L_setSmooth>>
  /\ output = << <<"u", "s", "a", "g", "e", ":", " ", "s", "e", "t", "v", "a", "r", " ", "<", "v", "a", "r", "i", "a", "b", "l", "e", ">", " ", "<", "v", "a", "l", "u", "e", ">">>, <<"I", "n", "v", "a", "l", "i", "d", " ", "v", "a", "l", "u", "e", ":", " ", "f", "a", "s", "t">>,
                 <<"T", "y", "p", "e", " ", "m", "i", "s", "m", "a", "t", "c", "h", " ", "f", "o", "r", " ", "v", "a", "r", "i", "a", "b", "l", "e", ":", " ", "m", "o", "u", "s", "e", "_", "s", "m", "o", "o", "t", "h">> >>
  /\ cvars = InitCameraCVars

\* The lines of a text, split at its line feeds.
RECURSIVE LineEnd(_, _)
LineEnd(text, k) ==
  IF k > Len(text) \/ text[k] = "\n" THEN k ELSE LineEnd(text, k + 1)
RECURSIVE SplitLinesFrom(_, _)
SplitLinesFrom(text, k) ==
  LET e == LineEnd(text, k) IN
  IF e > Len(text) THEN <<SubSeq(text, k, Len(text))>>
  ELSE <<SubSeq(text, k, e - 1)>> \o SplitLinesFrom(text, e + 1)
SplitLines(text) == SplitLinesFrom(text, 1)

C12_Getvar == AtCommand(<<"g", "e", "t", "v", "a", "r">>)
C12_Listvars == AtCommand(<<"l", "i", "s", "t", "v", "a", "r", "s">>)

\* C12: getvar and listvars are read-only: they never change the registry
\* or PlayerStats.  getvar on an unregistered name returns "Variable not
\* found: {name}".  listvars returns "No variables defined" iff the
\* registry is empty, and otherwise a single output entry whose leading
\* count is the number of registered variables, followed by one
\* "name = value" line per variable.
C12_GetvarListvarsReadOnly ==
  /\ [][(C12_Getvar \/ C12_Listvars) => (cvars' = cvars /\ stats' = stats)]_vars
  /\ [][(C12_Getvar /\ Len(TokensOf(Line)) >= 2 /\ ~CVarGet(cvars, TokensOf(Line)[2]).some)
          => output' = Append(output, <<"V", "a", "r", "i", "a", "b", "l", "e", " ", "n", "o", "t", " ", "f", "o", "u", "n", "d", ":", " ">> \o TokensOf(Line)[2])]_vars
  /\ [][C12_Listvars
          => /\ Len(output') = Len(output) + 1
             /\ SubSeq(output', 1, Len(output)) = output
             /\ LET e == output'[Len(output')]
                    ls == SplitLines(e)
                IN /\ (e = <<"N", "o", " ", "v", "a", "r", "i", "a", "b", "l", "e", "s", " ", "d", "e", "f", "i", "n", "e", "d">>) <=> (cvars = <<>>)
                   /\ cvars # <<>> =>
                        /\ Len(ls) = Len(cvars) + 1
                        /\ ls[1] = FmtNat(Len(cvars)) \o <<" ", "v", "a", "r", "i", "a", "b", "l", "e", "s", ":">>
                        /\ ParseI32(SplitWhitespace(ls[1])[1]).v = Len(cvars)
                        /\ \A k \in 1..Len(cvars) :
                             Cardinality({j \in 2..Len(ls) :
                               ls[j] = <<" ", " ">> \o cvars[k].name \o <<" ", "=", " ">>
                                         \o FmtCVar(cvars[k].val)}) = 1]_vars

\* getvar on a name that is not registered, a setvar, and a listvars of
\* the four variables of startup.
C12_Example ==
  /\ pc = "returned"
  /\ fn = "process_script"
  /\ script = <<L_getAbsent, L_setMouse, L_listvars>>
  /\ entry.cvars = InitCameraCVars
  /\ stats = DefaultStats
  /\ output[1] = <<"V", "a", "r", "i", "a", "b", "l", "e", " ", "n", "o", "t", " ", "f", "o", "u", "n", "d", ":", " ", "n", "o", "p", "e">>
  /\ SplitLines(output[3]) =
       << <<"4", " ", "v", "a", "r", "i", "a", "b", "l", "e", "s", ":">>, <<" ", " ", "m", "o", "u", "s", "e", ".", "s", "e", "n", "s", "i", "t", "i", "v", "i", "t", "y", " ", "=", " ", "0", ".", "0", "0", "1">>, <<" ", " ", "a", "r", "r", "o", "w", "_", "s", "e", "n", "s", "i", "t", "i", "v", "i", "t", "y", " ", "=", " ", "2", ".", "7", "5">>,
          <<" ", " ", "m", "o", "u", "s", "e", "_", "s", "m", "o", "o", "t", "h", " ", "=", " ", "1">>, <<" ", " ", "m", "o", "u", "s", "e", ".", "i", "n", "v", "e", "r", "t", "_", "y", " ", "=", " ", "1">> >>

\* The k-th line of the script is a quit line.
IsQuit(k) == ~IsBlankOrComment(script[k]) /\ TokensOf(script[k])[1] = <<"q", "u", "i", "t">>

\* C13: quit is terminal.  The round that dispatches quit ends the process
\* and changes nothing else; once the process has ended no later line
\* executes and no state changes; an interpreter that returns its output
\* has met no quit line; and when the process ends at a quit line, the
\* lines before it, and no others, have taken effect.
C13_QuitIsTerminal ==
  /\ [][(AtCommand(<<"q", "u", "i", "t">>) /\ ReturnsOutput)
          => /\ pc' = "exited"
             /\ UNCHANGED <<stats, cvars, actor, file, output>>]_vars
  /\ [][pc = "exited" => UNCHANGED vars]_vars
  /\ [](pc = "returned" /\ ReturnsOutput => \A k \in 1..Len(script) : ~IsQuit(k))
  /\ [](pc = "exited"
          => /\ IsQuit(idx)
             /\ \A k \in 1..(idx - 1) : ~IsQuit(k)
             /\ LET r == RunTo(idx - 1) IN
                  /\ r.w.pc = "running"
                  /\ stats = r.w.stats
                  /\ cvars = r.w.cvars
                  /\ actor = r.w.actor
                  /\ output = r.output)

\* The process has ended at the quit of the second line with the gold of
\* the first; the third line was not run.
C13_Example ==
  /\ pc = "exited"
  /\ fn = "script"
  /\ script = <<L_gold10, L_quitNow, L_gold10>>
  /\ idx = 2
  /\ stats.gold = 10
  /\ output = << <<"A", "d", "d", "e", "d", " ", "1", "0", " ", "g", "o", "l", "d", ",", " ", "n", "e", "w", " ", "v", "a", "l", "u", "e", ":", " ", "1", "0">> >>

\* The commands script.rs and process_script.rs both dispatch to a handler
\* that returns.
SharedCommands == {<<"s", "e", "t", "v", "a", "r">>, <<"g", "e", "t", "v", "a", "r">>, <<"l", "i", "s", "t", "v", "a", "r", "s">>, <<"a", "d", "d", "_", "g", "o", "l", "d">>, <<"a", "d", "d", "_", "s", "t", "a", "m", "i", "n", "a">>}

\* Every command line of the script names a command of cs or, where
\* unknown is allowed, a name no interpreter recognises.
ScriptOver(cs, unknown) ==
  \A k \in 1..Len(script) :
    \/ IsBlankOrComment(script[k])
    \/ TokensOf(script[k])[1] \in cs
    \/ unknown /\ TokensOf(script[k])[1] \notin Commands

\* The interpreters that return output, with the actors they can be given.
OutputCalls ==
  {<<"script", NoActor>>, <<"process_script", NoActor>>, <<"with_actor", NoActor>>,
   <<"with_actor", SomeActor>>}

\* The run of the whole script by the interpreter and actor of c, from the
\* PlayerStats and registry of the call.
RunBy(c) == RunLines(c[1], script, [entry EXCEPT !.actor = c[2]], <<>>, Env)

Typed(reg) == {<<reg[k].name, reg[k].val.t>> : k \in 1..Len(reg)}

\* C19: after startup the registry holds exactly mouse.sensitivity and
\* arrow_sensitivity as Float and mouse_smooth and mouse.invert_y as Int,
\* and no sequence of script commands adds a variable, removes one or
\* changes the type of one.
C19_RegistryNamesAndTypesFixed ==
  /\ Len(cvars) = 4
  /\ Typed(cvars) = {<<MouseSensitivity, "Float">>, <<ArrowSensitivity, "Float">>,
                      <<MouseSmooth, "Int">>, <<MouseInvertY, "Int">>}

\* A setvar on an absent name, one on an Int variable and one that
\* succeeded have run: the value of mouse.sensitivity is the one set.
C19_Example ==
  /\ pc = "returned"
  /\ fn = "process_script"
  /\ script = <<L_setAbsent, L_setInvert, L_setMouse>>
  /\ output = << <<"V", "a", "r", "i", "a", "b", "l", "e", " ", "n", "o", "t", " ", "f", "o", "u", "n", "d", ":", " ", "n", "o", "p", "e">>, <<"T", "y", "p", "e", " ", "m", "i", "s", "m", "a", "t", "c", "h", " ", "f", "o", "r", " ", "v", "a", "r", "i", "a", "b", "l", "e", ":", " ", "m", "o", "u", "s", "e", ".", "i", "n", "v", "e", "r", "t", "_", "y">>,
                 <<"m", "o", "u", "s", "e", ".", "s", "e", "n", "s", "i", "t", "i", "v", "i", "t", "y", " ", "=", " ", "0", ".", "0", "0", "1">> >>
  /\ cvars # entry.cvars

\* The character at column col of row row of the level, both counted from
\* 0, is a wall glyph.
WallAt(col, row) ==
  /\ row \in 0..(Len(grid) - 1)
  /\ col \in 0..(Len(grid[row + 1]) - 1)
  /\ grid[row + 1][col + 1] \in {"X", "x"}

\* The cells of the level and those around it.
NearCells == ((-2)..4) \X ((-2)..(MaxRows + 2))

\* C17: the collision map marks the cell (col, row) occupied iff the
\* character at that column of that row of the grid is 'X' or 'x'; its
\* width is the length of the longest row and its height the number of
\* rows; and once it is built no update system inserts or removes an
\* occupied cell.
C17_MapMatchesGrid ==
  /\ [](phase = "update"
          => /\ collision_map.grid \subseteq NearCells
             /\ \A c \in NearCells : (c \in collision_map.grid) <=> WallAt(c[1], c[2])
             /\ collision_map.height = Len(grid)
             /\ \A r \in 1..Len(grid) : Len(grid[r]) <= collision_map.width
             /\ \/ \E r \in 1..Len(grid) : Len(grid[r]) = collision_map.width
                \/ (grid = <<>> /\ collision_map.width = 0))
  /\ [][phase = "update" => collision_map' = collision_map]_vars

\* The map of a level of two rows, with the player moved from the start.
C17_Example ==
  /\ phase = "update"
  /\ grid = << <<".", "x">>, <<"X", ".">> >>
  /\ collision_map = [grid |-> {<<1, 0>>, <<0, 1>>}, width |-> 2, height |-> 2]
  /\ player.y = 7

\* The cells of the level that hold a wall glyph, which startup_system
\* marks occupied.
WallCells == {c \in NearCells : WallAt(c[1], c[2])}

\* (x, y) lies within the bounds of the cell c.
InsideCell(x, y, c) ==
  /\ c[1] * CellSize <= x /\ x <= (c[1] + 1) * CellSize
  /\ c[2] * CellSize <= y /\ y <= (c[2] + 1) * CellSize

\* How far v lies outside [lo, hi].
Gap(v, lo, hi) == IF v < lo THEN lo - v ELSE IF v > hi THEN v - hi ELSE 0

\* (x, y) is at least dist away from every point of the cell c.
AwayFrom(x, y, c, dist) ==
  LET gx == Gap(x, c[1] * CellSize, (c[1] + 1) * CellSize)
      gy == Gap(y, c[2] * CellSize, (c[2] + 1) * CellSize)
  IN gx * gx + gy * gy >= dist * dist

\* C15: for every occupied cell C and every disc with its centre inside
\* the bounds of C and a radius below half the cell size, can_move_to
\* returns false.
C15_InsideWallRejected ==
  ( /\ query.made
    /\ 2 * query.radius < CellSize
    /\ \E c \in WallCells : InsideCell(query.x, query.y, c) )
    => ~query.result

\* A disc of radius 3 at the centre of the short wall of the second
\* column was refused.
C15_Example ==
  /\ grid = << <<".", "x">> >>
  /\ query.made
  /\ query.x = 12
  /\ query.y = 4
  /\ query.radius = 3
  /\ ~query.result

\* C16: for every position at least one cell size away from every
\* occupied cell, can_move_to returns true for any radius up to one cell
\* size, also outside the declared width and height.
C16_FarFromWallsAccepted ==
  ( /\ query.made
    /\ query.radius <= CellSize
    /\ \A c \in WallCells : AwayFrom(query.x, query.y, c, CellSize) )
    => query.result

\* A disc of radius 8 centred one cell size to the left of a wall, outside
\* the level, was accepted.
C16_Example ==
  /\ grid = << <<"X", ".">>, <<" ", "c">> >>
  /\ query.made
  /\ query.x = -8
  /\ query.y = 4
  /\ query.radius = 8
  /\ query.result

\* can_move_to accepts the disc of the player at (x, y).
Accepted(x, y) == can_move_to(collision_map, x, y, player_radius)

\* C14: in every update tick the (x, y) of the player changes only to a
\* candidate for which can_move_to(new_x, new_y, PLAYER_RADIUS) returned
\* true, and a rejected candidate leaves x and y unchanged; hence from an
\* accepted start the position of the player is always one can_move_to
\* accepts.
C14_MovesOnlyWhereAccepted ==
  /\ [][(phase = "update" /\ (player'.x # player.x \/ player'.y # player.y))
          => /\ query' = [made |-> TRUE, x |-> player'.x, y |-> player'.y,
                          radius |-> player_radius, result |-> TRUE]
             /\ Accepted(player'.x, player'.y)]_vars
  /\ [][(phase = "update" /\ query'.made /\ ~query'.result)
          => (player'.x = player.x /\ player'.y = player.y)]_vars
  /\ []((phase = "update" /\ Accepted(start.x, start.y)) => Accepted(player.x, player.y))

\* The player of radius 3 has walked from (4, 4) to (5, 4) and was refused
\* (6, 4), two units from the wall, in a frame that moved it down.
C14_Example ==
  /\ phase = "update"
  /\ grid = << <<".", "x">> >>
  /\ player_radius = 3
  /\ start = [x |-> 4, y |-> 4]
  /\ player = [x |-> 5, y |-> 4, z |-> 4]
  /\ query = [made |-> TRUE, x |-> 6, y |-> 4, radius |-> 3, result |-> FALSE]

\* A step of update_weapon_swing that changed something.
WeaponTick == <<weapon, visibility, frame>>' # <<weapon, visibility, frame>>

\* The step starts a swing: the frame began one, or a weapon at rest is
\* swinging or has another timer after it.
SwingStarts ==
  /\ WeaponTick
  /\ \/ frame'.started
     \/ (~weapon.is_swinging /\ weapon' # weapon)

PhaseRank(p) == CASE p = "windup" -> 1 [] p = "thrust" -> 2 [] p = "followthrough" -> 3

\* C21: every started swing ends: under frames with positive elapsed time
\* the timer finishes, is_swinging becomes false and the transform is set
\* exactly to the rest position and rest rotation; while the weapon is
\* swinging its progress goes through wind-up, thrust and follow-through
\* in that order and never back, whatever happens to the active slot.
C21_SwingEnds ==
  /\ weapon.is_swinging
       ~> (~weapon.is_swinging /\ weapon.finished /\ transform = RestPose)
  /\ [][(weapon.is_swinging /\ ~weapon'.is_swinging)
          => /\ weapon'.finished
             /\ weapon'.elapsed = SwingDuration
             /\ transform' = RestPose]_vars
  /\ [][(weapon.is_swinging /\ weapon'.is_swinging)
          => /\ PhaseRank(SwingPhase(Fraction(weapon')))
                  >= PhaseRank(SwingPhase(Fraction(weapon)))
             /\ Fraction(weapon') >= Fraction(weapon)
             /\ weapon' # weapon => transform' = Pose(Fraction(weapon'))]_vars

\* A swing ended in a frame of 150 ms in which slot 2 was active: the
\* weapon is hidden, at rest and in the rest pose.
C21_Example ==
  /\ weapon = [is_swinging |-> FALSE, elapsed |-> SwingDuration, finished |-> TRUE]
  /\ transform = RestPose
  /\ toolbar.active_slot = 2
  /\ visibility = "Hidden"
  /\ frame.ran /\ frame.delta = 150 /\ ~frame.started

\* C22: while the console is visible update_camera_control_system (of
\* camera/systems.rs) changes nothing: the translation, the rotation,
\* yaw_velocity and pitch_velocity of the player are after the run what
\* they were before it, whatever keys are held or mouse motion arrives.
C22_ConsoleFreezesCamera ==
  [][gaze'.visible
       => /\ system = "camera"
          /\ player' = player
          /\ view' = view
          /\ query' = query
          /\ phase' = phase]_vars

\* The system ran with the console visible on a player that had turned and
\* whose velocities would have turned it further.
C22_Example ==
  /\ system = "camera"
  /\ phase = "update"
  /\ gaze.visible
  /\ gaze.turns >= 1
  /\ view.ok
  /\ view.yaw_velocity = Signed(-200)
  /\ view.pitch_velocity = Signed(100)

\* The pitch is a number within the limit.
PitchWithinLimit(v) == v.ok /\ v.pitch <= PitchLimit /\ -PitchLimit <= v.pitch

\* c is at most rotation_limit * dt * 60 in size.
WithinRotationLimit(c, dt) == c.cls = "fin" /\ c.mag <= RotationLimit * dt

\* C23: the camera pitch never leaves [-pitch_limit, +pitch_limit]: a
\* pitch within the limit before a run is within the limit after it, for
\* any arrow keys and any velocities, and what the smoothed mouse
\* velocities add to yaw and pitch in a run is at most
\* rotation_limit * dt * 60 in size.
C23_PitchWithinLimit ==
  /\ [][PitchWithinLimit(view) => PitchWithinLimit(view')]_vars
  /\ [](WithinRotationLimit(gaze.yaw, gaze.dt) /\ WithinRotationLimit(gaze.pitch, gaze.dt))

\* The sensitivities of the registry are finite numbers.
FiniteSensitivities ==
  /\ get_f32(cvars, MouseSensitivity).cls = "fin"
  /\ get_f32(cvars, ArrowSensitivity).cls = "fin"

\* C23 where the sensitivities of the registry are finite numbers.
C23_PitchWithinLimitFinite ==
  /\ [][(FiniteSensitivities /\ PitchWithinLimit(view)) => PitchWithinLimit(view')]_vars
  /\ [](FiniteSensitivities
          => /\ WithinRotationLimit(gaze.yaw, gaze.dt)
             /\ WithinRotationLimit(gaze.pitch, gaze.dt))

\* ---------------------------------------------------------------------
\* Status effects (combat/status_effects.rs).
\*
\* The times of a StatusEffect are f32 values.  An f32 time t of this part
\* is the integer t * 2^25: every frame time below is a multiple of 2^-25 s,
\* so a sum or a difference is computed exactly and then rounded to the f32
\* nearest to it, ties to even, as the hardware does.

Unit == Pow2(25)
Significand == Pow2(24)

\* The spacing of the f32 values around the magnitude n.
RECURSIVE Ulp(_)
Ulp(n) == IF n < Significand THEN 1 ELSE 2 * Ulp(n \div 2)

\* The f32 nearest to n / d, ties to even, for n >= 0 and d > 0.
Quantised(n, d) ==
  LET u == Ulp(n \div d)
      q == n \div (d * u)
      r == n % (d * u)
  IN  IF 2 * r > d * u \/ (2 * r = d * u /\ q % 2 = 1) THEN (q + 1) * u ELSE q * u

\* The f32 result of an operation whose exact result is n.
Rounded(n) == IF n < 0 THEN 0 - Quantised(0 - n, 1) ELSE Quantised(n, 1)

\* The f32 literal or frame time nearest to num / den seconds.
Secs(num, den) == Quantised(num * Unit, den)

\* StatusEffect::burning, StatusEffect::frozen and StatusEffect::poisoned.
burning(duration, damage_per_tick) ==
  [present |-> TRUE, effect_type |-> "Burning", duration |-> duration,
   tick_interval |-> Secs(1, 1), time_since_tick |-> 0,
   damage_per_tick |-> damage_per_tick]

frozen(duration) ==
  [present |-> TRUE, effect_type |-> "Frozen", duration |-> duration,
   tick_interval |-> 0, time_since_tick |-> 0, damage_per_tick |-> 0]

poisoned(duration, damage_per_tick) ==
  [present |-> TRUE, effect_type |-> "Poisoned", duration |-> duration,
   tick_interval |-> Secs(2, 1), time_since_tick |-> 0,
   damage_per_tick |-> damage_per_tick]

\* should_tick that keeps what the accumulator holds beyond the interval.
should_tick_carrying(e, dt) ==
  LET t == Rounded(e.time_since_tick + dt)
  IN  IF t >= e.tick_interval /\ e.tick_interval > 0
      THEN [effect |-> [e EXCEPT !.time_since_tick = Rounded(t - e.tick_interval)],
            ticked |-> TRUE]
      ELSE [effect |-> [e EXCEPT !.time_since_tick = t], ticked |-> FALSE]

\* StatusEffect::should_tick: the effect after the call and what it returned.
should_tick(e, dt) ==
  LET t == Rounded(e.time_since_tick + dt)
  IN  IF t >= e.tick_interval /\ e.tick_interval > 0
      THEN [effect |-> [e EXCEPT !.time_since_tick = 0], ticked |-> TRUE]
      ELSE [effect |-> [e EXCEPT !.time_since_tick = t], ticked |-> FALSE]

\* The bookkeeping of a run of update_status_effects.
Tallied(dt, ticked, damage) ==
  [tally EXCEPT !.ran = TRUE, !.dt = dt, !.ticked = ticked,
                !.ticks = @ + (IF ticked THEN 1 ELSE 0), !.dealt = @ + damage]

\* update_status_effects that removes an effect only once its duration is
\* below zero.
update_status_effects_lingering(dt) ==
  /\ IF ~effect.present
     THEN /\ tally' = Tallied(dt, FALSE, 0)
          /\ UNCHANGED <<effect, victim>>
     ELSE \E r \in {should_tick([effect EXCEPT !.duration = Rounded(@ - dt)], dt)} :
            LET damage == IF r.ticked THEN r.effect.damage_per_tick ELSE 0
            IN  /\ victim' = [victim EXCEPT !.health = @ - damage]
                /\ effect' = IF r.effect.duration < 0 THEN NoEffect ELSE r.effect
                /\ tally' = Tallied(dt, r.ticked, damage)
  /\ UNCHANGED <<shaken, strewn>>
  /\ UNCHANGED <<scripted, spatial, armed>>

\* update_status_effects on the entity, with time.delta_secs() = dt: the
\* duration is updated, the damage of a due tick is taken from the health of
\* the Actor, and the component is removed once the duration is used up.
update_status_effects(dt) ==
  /\ IF ~effect.present
     THEN /\ tally' = Tallied(dt, FALSE, 0)
          /\ UNCHANGED <<effect, victim>>
     ELSE \E r \in {should_tick([effect EXCEPT !.duration = Rounded(@ - dt)], dt)} :
            LET damage == IF r.ticked THEN r.effect.damage_per_tick ELSE 0
            IN  /\ victim' = [victim EXCEPT !.health = @ - damage]
                /\ effect' = IF r.effect.duration <= 0 THEN NoEffect ELSE r.effect
                /\ tally' = Tallied(dt, r.ticked, damage)
  /\ UNCHANGED <<shaken, strewn>>
  /\ UNCHANGED <<scripted, spatial, armed>>

\* The component apply_status_effect inserts for a damage type when
\* rand::random::<f32>() returned roll hundredths.
Inflicted(damage_type, roll) ==
  CASE damage_type = "Fire" /\ roll < 30 -> burning(Secs(5, 1), 2)
    [] damage_type = "Ice" /\ roll < 50 -> frozen(Secs(3, 1))
    [] damage_type = "Poison" /\ roll < 40 -> poisoned(Secs(8, 1), 1)
    [] OTHER -> NoEffect

\* The number of effects applied to the entity in a behaviour.
MaxEffects == 2

\* apply_status_effect: insert replaces a StatusEffect the entity has.
apply_status_effect(damage_type, roll) ==
  /\ tally.life < MaxEffects
  /\ \E e \in {Inflicted(damage_type, roll)} :
       IF e.present
       THEN /\ effect' = e
            /\ tally' = [NoTally EXCEPT !.life = tally.life + 1, !.created = e]
            /\ UNCHANGED victim
       ELSE UNCHANGED afflicted
  /\ UNCHANGED <<shaken, strewn>>
  /\ UNCHANGED <<scripted, spatial, armed>>

DamageTypes == {"Fire", "Ice", "Poison", "Physical"}
Rolls == {0, 30, 40, 50}
FrameTimes == {0, Secs(1, 3), Secs(2, 1)}

InitEffects ==
  /\ ScriptIdle
  /\ SpatialIdle
  /\ ArmedIdle
  /\ StagedIdle

Afflict == \E damage_type \in DamageTypes, roll \in Rolls : apply_status_effect(damage_type, roll)
Elapse == \E dt \in FrameTimes \ {0} : update_status_effects(dt)
Halt == update_status_effects(0)

NextEffects == Afflict \/ Elapse \/ Halt

SpecEffects == InitEffects /\ [][NextEffects]_vars

\* The schedule runs update_status_effects in every frame, and frames take
\* time.
SpecEffectsFair == SpecEffects /\ WF_vars(Elapse)

\* C24: a run of update_status_effects on an entity with an effect deals
\* damage exactly when the tick interval is positive and the accumulator,
\* with the frame time added, has reached it; the health then drops by
\* damage_per_tick and the accumulator is 0, otherwise the health is kept
\* and the accumulator holds the sum; a Frozen effect never changes health.
C24_TickWhenDue ==
  [][(effect.present /\ tally'.ran /\ tally'.life = tally.life)
       => LET acc == Rounded(effect.time_since_tick + tally'.dt)
              due == effect.tick_interval > 0 /\ acc >= effect.tick_interval
          IN  /\ tally'.ticked = due
              /\ victim'.health
                   = victim.health - (IF due THEN effect.damage_per_tick ELSE 0)
              /\ effect'.present
                   => effect'.time_since_tick = (IF due THEN 0 ELSE acc)
              /\ effect.effect_type = "Frozen" => victim' = victim]_vars

\* A Burning effect has just taken its second tick of 2 health in a frame
\* of a third of a second, and its accumulator is back at 0.
C24_Example ==
  /\ effect.present
  /\ effect.effect_type = "Burning"
  /\ tally.ran
  /\ tally.ticked
  /\ tally.dt = Secs(1, 3)
  /\ tally.ticks = 2
  /\ effect.time_since_tick = 0
  /\ victim.health = 96

\* C25: a run of update_status_effects takes the frame time off the duration
\* and removes the component in the first run that leaves no duration; under
\* frames of positive time an effect is eventually removed, and an entity
\* without an effect loses no health.
C25_EffectExpires ==
  /\ effect.present ~> ~effect.present
  /\ [][(effect.present /\ tally'.ran /\ tally'.life = tally.life)
          => LET left == Rounded(effect.duration - tally'.dt)
             IN  IF left <= 0
                 THEN ~effect'.present
                 ELSE effect'.present /\ effect'.duration = left]_vars
  /\ [](effect.present => effect.duration > 0)
  /\ [][~effect.present /\ ~effect'.present => victim' = victim]_vars

\* A Poisoned effect was removed by the run that took its fourth tick, in
\* the frame that used up its 8 seconds.
C25_Example ==
  /\ ~effect.present
  /\ tally.ran
  /\ tally.created.effect_type = "Poisoned"
  /\ tally.dt = Secs(2, 1)
  /\ tally.ticked
  /\ tally.ticks = 4
  /\ victim.health = 96

\* C26: over its life an effect ticks at most duration / tick_interval
\* times: the ticks of an effect, times its interval, stay within the
\* duration it was created with, so burning(5.0, 2) removes at most 10
\* health and poisoned(8.0, 1) at most 4.
C26_TicksWithinLife ==
  /\ tally.created.tick_interval > 0
       => tally.ticks * tally.created.tick_interval <= tally.created.duration
  /\ tally.created.effect_type = "Burning" => tally.dealt <= 10
  /\ tally.created.effect_type = "Poisoned" => tally.dealt <= 4

\* What the rounding of the duration leaves of C26: one tick more than
\* duration / tick_interval at most.
C26_OneTickMore ==
  /\ tally.created.tick_interval > 0
       => (tally.ticks - 1) * tally.created.tick_interval <= tally.created.duration
  /\ tally.created.effect_type = "Burning" => tally.dealt <= 12
  /\ tally.created.effect_type = "Poisoned" => tally.dealt <= 5
\* ---------------------------------------------------------------------
\* Camera shake (combat/visual_feedback.rs).  Lengths are in thousandths,
\* times in ms, angles in hundredths of a radian, sines in thousandths.

HalfTurn == 314

\* f32::sin of an angle a >= 0, by Bhaskara's approximation of the half wave.
HalfWave(x) == (16 * x * (HalfTurn - x) * 1000)
                 \div (5 * HalfTurn * HalfTurn - 4 * x * (HalfTurn - x))
Sin(a) ==
  LET x == a % (2 * HalfTurn)
  IN  IF x < HalfTurn THEN HalfWave(x) ELSE 0 - HalfWave(x - HalfTurn)

\* f32::cos.
Cos(a) == Sin(a + HalfTurn \div 2)

Plus(a, b) == <<a[1] + b[1], a[2] + b[2], a[3] + b[3]>>

\* CameraShake::new, with the default frequency of 20.
CameraShakeNew(intensity, duration, base_position) ==
  [present |-> TRUE, intensity |-> intensity, duration |-> duration, frequency |-> 20,
   base_position |-> base_position]

\* CameraShake::hit_shake and CameraShake::critical_shake.
hit_shake == CameraShakeNew(100, 150, <<0, 0, 0>>)
critical_shake == CameraShakeNew(200, 250, <<0, 0, 0>>)

\* shake_x, shake_y and shake_z at time.elapsed_secs() = elapsed.
ShakeOffset(s, elapsed) ==
  LET angle == (elapsed * s.frequency) \div 10
  IN  <<(Sin(angle) * s.intensity) \div 1000,
        (Cos((angle * 13) \div 10) * s.intensity * 7) \div 10000,
        (Sin((angle * 8) \div 10) * s.intensity * 5) \div 10000>>

\* The time the frames of a behaviour take in all.
MaxElapsed == 600

\* The bookkeeping of a run of update_camera_shake.
Jolted(expired) ==
  [jolt EXCEPT !.ran = TRUE, !.expired = expired,
               !.processed = @ \/ shake.present,
               !.first = IF shake.present /\ ~jolt.processed
                         THEN camera_transform.translation ELSE @]

\* update_camera_shake that takes the base position anew in every run.
update_camera_shake_drifting(dt) ==
  /\ time.elapsed + dt <= MaxElapsed
  /\ time' = [elapsed |-> time.elapsed + dt]
  /\ IF ~shake.present
     THEN /\ jolt' = Jolted(FALSE)
          /\ UNCHANGED <<shake, camera_transform>>
     ELSE LET base == camera_transform.translation
          IN  IF shake.duration <= 0
              THEN /\ camera_transform' = [translation |-> base]
                   /\ shake' = NoShake
                   /\ jolt' = Jolted(TRUE)
              ELSE /\ camera_transform'
                        = [translation |-> Plus(base, ShakeOffset(shake, time'.elapsed))]
                   /\ shake' = [shake EXCEPT !.base_position = base, !.duration = @ - dt]
                   /\ jolt' = Jolted(FALSE)
  /\ UNCHANGED <<afflicted, strewn>>
  /\ UNCHANGED <<scripted, spatial, armed>>

\* update_camera_shake on the camera in a frame of dt: the base position is
\* taken on the first run, a shake with no duration left is reset to it and
\* removed, and any other is moved to base + offset and loses dt.
update_camera_shake(dt) ==
  /\ time.elapsed + dt <= MaxElapsed
  /\ time' = [elapsed |-> time.elapsed + dt]
  /\ IF ~shake.present
     THEN /\ jolt' = Jolted(FALSE)
          /\ UNCHANGED <<shake, camera_transform>>
     ELSE LET base == IF shake.base_position = <<0, 0, 0>>
                      THEN camera_transform.translation ELSE shake.base_position
          IN  IF shake.duration <= 0
              THEN /\ camera_transform' = [translation |-> base]
                   /\ shake' = NoShake
                   /\ jolt' = Jolted(TRUE)
              ELSE /\ camera_transform'
                        = [translation |-> Plus(base, ShakeOffset(shake, time'.elapsed))]
                   /\ shake' = [shake EXCEPT !.base_position = base, !.duration = @ - dt]
                   /\ jolt' = Jolted(FALSE)
  /\ UNCHANGED <<afflicted, strewn>>
  /\ UNCHANGED <<scripted, spatial, armed>>

\* The number of shakes given to the camera in a behaviour.
MaxShakes == 2

\* A CameraShake is inserted on the camera; it replaces one the camera has.
insert_shake(s) ==
  /\ jolt.life < MaxShakes
  /\ shake' = s
  /\ jolt' = [NoJolt EXCEPT !.life = jolt.life + 1]
  /\ UNCHANGED <<camera_transform, time>>
  /\ UNCHANGED <<afflicted, strewn>>
  /\ UNCHANGED <<scripted, spatial, armed>>

\* The translations update_camera_control_system adds to the camera in a
\* frame, and how far from the start the camera is followed.
Strides == {<<250, 0, 0>>, <<0, 0, -400>>}
Within(t) == \A i \in 1..3 : t[i] <= PlayerStart[i] + 250 /\ t[i] >= PlayerStart[i] - 400

\* The player moves: the camera control system adds to the translation.
stride(d) ==
  /\ Within(Plus(camera_transform.translation, d))
  /\ camera_transform' = [translation |-> Plus(camera_transform.translation, d)]
  /\ jolt' = [jolt EXCEPT !.ran = FALSE, !.expired = FALSE,
                          !.moved = @ \/ (shake.present /\ jolt.processed)]
  /\ UNCHANGED <<shake, time>>
  /\ UNCHANGED <<afflicted, strewn>>
  /\ UNCHANGED <<scripted, spatial, armed>>

ShakeFrames == {0, 50, 100}

InitShake ==
  /\ ScriptIdle
  /\ SpatialIdle
  /\ ArmedIdle
  /\ StagedIdle

NextShake ==
  \/ \E s \in {hit_shake, critical_shake} : insert_shake(s)
  \/ \E dt \in ShakeFrames : update_camera_shake(dt)
  \/ \E d \in Strides : stride(d)

SpecShake == InitShake /\ [][NextShake]_vars

Near(t, base, intensity) ==
  \A i \in 1..3 : t[i] - base[i] <= intensity /\ base[i] - t[i] <= intensity

TrackerCell(w) == w \div 80

Distance(a, b) == IF a < b THEN b - a ELSE a - b

\* check_circle_collision: whether the player is within the radius of the
\* item, on the XY plane.
check_circle_collision(p, item_pos, radius) ==
  (p[1] - item_pos[1]) * (p[1] - item_pos[1]) + (p[2] - item_pos[2]) * (p[2] - item_pos[2])
    < radius * radius

\* The entries of world_positions that remove_at_position retains: those
\* more than 0.1 away on x or on y.
Retained(world_positions, world_x, world_y) ==
  SelectSeq(world_positions,
            LAMBDA e : Distance(e.x, world_x) > 1 \/ Distance(e.y, world_y) > 1)

\* ItemTracker::remove_at_position.
remove_at_position(tracker, world_x, world_y) ==
  [positions |-> tracker.positions \ {<<TrackerCell(world_x), TrackerCell(world_y)>>},
   world_positions |-> Retained(tracker.world_positions, world_x, world_y)]

\* The item type update_check_item_collision finds for an item position:
\* that of the first entry within 0.1 on x and y, "apple" if there is none.
FoundType(world_positions, item) ==
  LET near == SelectSeq(world_positions,
                        LAMBDA e : Distance(e.x, item.x) < 1 /\ Distance(e.y, item.y) < 1)
  IN  IF near = <<>> THEN "apple" ELSE near[1].item_type

\* The entities of order, handled one after the other by the loop of
\* update_check_item_collision: the script of the type found is run, the
\* entity is despawned and its position removed from the tracker.  w holds
\* the tracker, the scripts run per entity and the entities whose entry was
\* removed while another entity was handled.
RECURSIVE Gathered(_, _)
Gathered(order, w) ==
  IF order = <<>> THEN w
  ELSE LET item == Head(order)
           after == remove_at_position(w.tracker, item.x, item.y)
           gone == {e.of : e \in {w.tracker.world_positions[i] :
                                    i \in 1..Len(w.tracker.world_positions)}}
                     \ {e.of : e \in {after.world_positions[i] :
                                        i \in 1..Len(after.world_positions)}}
       IN  Gathered(Tail(order),
                    [tracker |-> after,
                     scripts |-> [w.scripts EXCEPT ![item.id] =
                                    Append(@, FoundType(w.tracker.world_positions, item))],
                     robbed |-> w.robbed \cup (gone \ {item.id})])

\* The orders in which a query can yield the entities of a set.
Orders(S) ==
  {o \in [1..Cardinality(S) -> S] : \A i, j \in 1..Cardinality(S) : i # j => o[i] # o[j]}

\* update_check_item_collision: every item the player is within the radius
\* of is handled, in the order the query yields them; what is despawned is
\* gone when the system has run.
update_check_item_collision ==
  /\ LET all == {items[i] : i \in 1..Len(items)}
         hit == {it \in all :
                   check_circle_collision(player_pos, <<it.x, it.y>>, it.interaction_radius)}
     IN  \E order \in Orders(hit) :
           \E w \in {Gathered(order, [tracker |-> item_tracker, scripts |-> collected.scripts,
                                      robbed |-> collected.robbed])} :
             /\ item_tracker' = w.tracker
             /\ items' = SelectSeq(items, LAMBDA it : it \notin hit)
             /\ collected' = [scripts |-> w.scripts, robbed |-> w.robbed,
                              taken |-> {it.id : it \in hit}]
  /\ UNCHANGED player_pos
  /\ UNCHANGED <<afflicted, shaken>>
  /\ UNCHANGED <<scripted, spatial, armed>>

\* The number of items spawned in a behaviour.
MaxItems == 3

\* update_spawn_item_on_click with the left button just pressed, no UI
\* element interacted with and the ray of the cursor meeting the ground in
\* the 2 x 2 cell (grid_x, grid_y): with slot 2 or 3 active and no item
\* tracked in that cell, the item is tracked and spawned at the middle of
\* the cell.
update_spawn_item_on_click(grid_x, grid_y) ==
  /\ Len(collected.scripts) < MaxItems
  /\ IF toolbar.active_slot \notin {2, 3} \/ <<grid_x, grid_y>> \in item_tracker.positions
     THEN UNCHANGED <<items, item_tracker, collected>>
     ELSE LET world_x == grid_x * 20 + 10
              world_y == grid_y * 20 + 10
              item_key == IF toolbar.active_slot = 3 THEN "coin-gold" ELSE "apple"
              id == Len(collected.scripts) + 1
          IN  /\ item_tracker' =
                   [positions |-> item_tracker.positions \cup {<<grid_x, grid_y>>},
                    world_positions |->
                      Append(item_tracker.world_positions,
                             [x |-> world_x, y |-> world_y, item_type |-> item_key, of |-> id])]
              /\ items' = Append(items, [id |-> id, x |-> world_x, y |-> world_y,
                                         item_type |-> item_key, interaction_radius |-> 20])
              /\ collected' = [collected EXCEPT !.scripts = Append(@, <<>>), !.taken = {}]
  /\ UNCHANGED player_pos
  /\ UNCHANGED <<afflicted, shaken>>
  /\ UNCHANGED <<scripted, spatial, armed>>

\* The player moves to p.
walk(p) ==
  /\ player_pos' = p
  /\ collected' = [collected EXCEPT !.taken = {}]
  /\ UNCHANGED <<items, item_tracker>>
  /\ UNCHANGED <<afflicted, shaken>>
  /\ UNCHANGED <<scripted, spatial, armed>>

ClickCells == {<<1, 1>>, <<4, 4>>}
Spots == {<<30, 30>>, <<95, 80>>, <<300, 300>>}

InitItems ==
  /\ ScriptIdle
  /\ SpatialIdle
  /\ ArmedIdle
  /\ AfflictIdle
  /\ ShakeIdle
  /\ items = <<>>
  /\ item_tracker = [positions |-> {}, world_positions |-> <<>>]
  /\ player_pos = <<300, 300>>
  /\ collected = [scripts |-> <<>>, robbed |-> {}, taken |-> {}]

NextItems ==
  \/ \E digit \in 1..3 : update_toolbar_input(FALSE, {digit})
  \/ \E cell \in ClickCells : update_spawn_item_on_click(cell[1], cell[2])
  \/ \E p \in Spots : walk(p)
  \/ update_check_item_collision

SpecItems == InitItems /\ [][NextItems]_vars

\* C28: an item within the radius of the player is collected in that run of
\* update_check_item_collision: the script of its own definition is run,
\* once, the entity is despawned and its entry leaves world_positions; no
\* entity has a script run twice, and no entry of another item is removed.
C28_CollectedOnce ==
  /\ [][\A i \in 1..Len(items) :
          check_circle_collision(player_pos, <<items[i].x, items[i].y>>,
                                 items[i].interaction_radius)
            /\ items[i].id \in collected'.taken
            => /\ collected'.scripts[items[i].id] = <<items[i].item_type>>
               /\ \A j \in 1..Len(items') : items'[j].id # items[i].id
               /\ \A k \in 1..Len(item_tracker'.world_positions) :
                    item_tracker'.world_positions[k].of # items[i].id]_vars
  /\ [](\A id \in 1..Len(collected.scripts) : Len(collected.scripts[id]) <= 1)
  /\ [](collected.robbed = {})

\* What holds of every collection: the entity is handled once, despawned,
\* and its entry leaves world_positions; only the script run and the
\* entries of other items are not as C28 has them.
C28_HandledOnce ==
  /\ [][\A i \in 1..Len(items) :
          items[i].id \in collected'.taken
            => /\ Len(collected'.scripts[items[i].id]) = 1
               /\ \A j \in 1..Len(items') : items'[j].id # items[i].id
               /\ \A k \in 1..Len(item_tracker'.world_positions) :
                    item_tracker'.world_positions[k].of # items[i].id]_vars
  /\ [](\A id \in 1..Len(collected.scripts) : Len(collected.scripts[id]) <= 1)
====
